---- MODULE Spec2Model ----
(***************************************************************************)
(* AI Job Alerts (Maxswex/TelegramBot-AIJobOpportunity): the aggregation   *)
(* pipeline of src/main.py, the helpers of src/utils.py and the pager of   *)
(* src/telegram_bot.py.                                                    *)
(*                                                                         *)
(* A Python str is a sequence of one-character strings (one per code       *)
(* point; a code point outside ASCII is written "U+XXXX"), so that         *)
(* len(), lower(), strip(), in and replace() are computed, not assumed.  *)
(***************************************************************************)
EXTENDS Integers, Sequences, FiniteSets, TLC

(***************************************************************************)
(* Python strings                                                          *)
(***************************************************************************)

\* Python's None where a str is expected (Job.location, Job.salary, ...).
NONE == <<"<None>">>

\* bool(s) for s a str or None: None and "" are falsy.
Truthy(s) == s # NONE /\ s # <<>>

\* s or ""
OrEmpty(s) == IF Truthy(s) THEN s ELSE <<>>

UpperCase == <<"A","B","C","D","E","F","G","H","I","J","K","L","M","N","O","P","Q","R","S","T","U","V","W","X","Y","Z">>

LowerCase == <<"a","b","c","d","e","f","g","h","i","j","k","l","m","n","o","p","q","r","s","t","u","v","w","x","y","z">>

\* str.lower(), one character
LowerChar(c) ==
  IF \E i \in 1..Len(UpperCase) : UpperCase[i] = c
  THEN LowerCase[CHOOSE i \in 1..Len(UpperCase) : UpperCase[i] = c]
  ELSE c

\* str.lower()
Lower(s) == [i \in 1..Len(s) |-> LowerChar(s[i])]

Whitespace == {" ", "\n", "\t", "\r"}

\* str.strip(): leading and trailing whitespace removed
Strip(s) ==
  LET keep == {i \in 1..Len(s) : s[i] \notin Whitespace}
  IN  IF keep = {} THEN <<>>
      ELSE LET lo == CHOOSE i \in keep : \A j \in keep : i <= j
               hi == CHOOSE i \in keep : \A j \in keep : j <= i
           IN  SubSeq(s, lo, hi)

\* k in s, for two str
Contains(s, k) ==
  \E i \in 1..(Len(s) - Len(k) + 1) : \A j \in 1..Len(k) : s[i + j - 1] = k[j]

\* " ".join(parts)
RECURSIVE JoinSpace(_)
JoinSpace(parts) ==
  IF Len(parts) = 0 THEN <<>>
  ELSE IF Len(parts) = 1 THEN parts[1]
  ELSE parts[1] \o <<" ">> \o JoinSpace(Tail(parts))

\* c * n for a one-character str c
Rep(c, n) == [i \in 1..n |-> c]

\* str(n) for n >= 0
Digits == <<"0","1","2","3","4","5","6","7","8","9">>

RECURSIVE StrOfNat(_)
StrOfNat(n) == IF n < 10 THEN <<Digits[n + 1]>> ELSE StrOfNat(n \div 10) \o <<Digits[(n % 10) + 1]>>

(***************************************************************************)
(* The keyword tables of src/utils.py, entry by entry                      *)
(***************************************************************************)

\* utils.py EUROPEAN_COUNTRIES: EU-27 + UK + Switzerland keywords (249 entries)
EUROPEAN_COUNTRIES ==
  {
    <<"a","a","r","h","u","s">>, <<"a","b","r","u","z","z","o">>, <<"a","m","s","t","e","r","d","a","m">>,
    <<"a","n","t","w","e","r","p">>, <<"a","p","u","l","i","a">>, <<"a","t","h","e","n","s">>,
    <<"a","t","h","i","n","a">>, <<"a","u","s","t","r","i","a">>, <<"b","a","r","c","e","l","o","n","a">>,
    <<"b","a","r","i">>, <<"b","a","s","e","l">>, <<"b","e","l","g","i","e">>, <<"b","e","l","g","i","q","u","e">>,
    <<"b","e","l","g","i","u","m">>, <<"b","e","r","g","a","m","o">>, <<"b","e","r","l","i","n">>,
    <<"b","e","r","n">>, <<"b","i","l","b","a","o">>, <<"b","i","r","m","i","n","g","h","a","m">>,
    <<"b","o","l","o","g","n","a">>, <<"b","o","l","z","a","n","o">>, <<"b","o","r","d","e","a","u","x">>,
    <<"b","r","a","g","a">>, <<"b","r","a","t","i","s","l","a","v","a">>, <<"b","r","e","s","c","i","a">>,
    <<"b","r","i","s","t","o","l">>, <<"b","r","i","t","a","i","n">>, <<"b","r","n","o">>,
    <<"b","r","u","s","s","e","l","s">>, <<"b","r","u","x","e","l","l","e","s">>,
    <<"b","u","c","h","a","r","e","s","t">>, <<"b","u","c","u","r","e","s","t","i">>,
    <<"b","u","d","a","p","e","s","t">>, <<"b","u","l","g","a","r","i","a">>, <<"c","a","g","l","i","a","r","i">>,
    <<"c","a","l","a","b","r","i","a">>, <<"c","a","m","b","r","i","d","g","e">>, <<"c","a","m","p","a","n","i","a">>,
    <<"c","a","t","a","n","i","a">>, <<"c","e","s","k","o">>, <<"c","l","u","j">>, <<"c","o","i","m","b","r","a">>,
    <<"c","o","l","o","g","n","e">>, <<"c","o","p","e","n","h","a","g","e","n">>, <<"c","o","r","k">>,
    <<"c","r","o","a","t","i","a">>, <<"c","y","p","r","u","s">>,
    <<"c","z","e","c","h"," ","r","e","p","u","b","l","i","c">>, <<"c","z","e","c","h","i","a">>,
    <<"d","a","n","m","a","r","k">>, <<"d","e","b","r","e","c","e","n">>, <<"d","e","n"," ","h","a","a","g">>,
    <<"d","e","n","m","a","r","k">>, <<"d","e","u","t","s","c","h","l","a","n","d">>, <<"d","r","e","s","d","e","n">>,
    <<"d","u","b","l","i","n">>, <<"d","u","s","s","e","l","d","o","r","f">>, <<"e","d","i","n","b","u","r","g","h">>,
    <<"e","e","s","t","i">>, <<"e","i","n","d","h","o","v","e","n">>, <<"e","l","l","a","d","a">>,
    <<"e","m","e","a">>, <<"e","m","i","l","i","a"," ","r","o","m","a","g","n","a">>,
    <<"e","m","i","l","i","a","-","r","o","m","a","g","n","a">>, <<"e","n","g","l","a","n","d">>,
    <<"e","s","p","a","n","a">>, <<"e","s","p","o","o">>, <<"e","s","t","o","n","i","a">>, <<"e","u">>,
    <<"e","u","r","o","p","e">>, <<"e","u","r","o","p","e","a","n">>, <<"f","i","n","l","a","n","d">>,
    <<"f","i","r","e","n","z","e">>, <<"f","l","o","r","e","n","c","e">>, <<"f","r","a","n","c","e">>,
    <<"f","r","a","n","k","f","u","r","t">>, <<"f","r","i","u","l","i">>, <<"g","a","l","w","a","y">>,
    <<"g","d","a","n","s","k">>, <<"g","e","n","e","v","a">>, <<"g","e","n","e","v","e">>, <<"g","e","n","o","a">>,
    <<"g","e","n","o","v","a">>, <<"g","e","r","m","a","n","y">>, <<"g","h","e","n","t">>,
    <<"g","l","a","s","g","o","w">>, <<"g","o","t","e","b","o","r","g">>, <<"g","o","t","h","e","n","b","u","r","g">>,
    <<"g","r","a","z">>, <<"g","r","e","a","t"," ","b","r","i","t","a","i","n">>, <<"g","r","e","e","c","e">>,
    <<"h","a","m","b","u","r","g">>, <<"h","e","l","l","a","s">>, <<"h","e","l","s","i","n","k","i">>,
    <<"h","o","l","l","a","n","d">>, <<"h","r","v","a","t","s","k","a">>, <<"h","u","n","g","a","r","y">>,
    <<"i","a","s","i">>, <<"i","r","e","l","a","n","d">>, <<"i","t","a","l","i","a">>,
    <<"i","t","a","l","i","a","n">>, <<"i","t","a","l","y">>, <<"k","a","t","o","w","i","c","e">>,
    <<"k","a","u","n","a","s">>, <<"k","o","b","e","n","h","a","v","n">>, <<"k","o","l","n">>,
    <<"k","o","s","i","c","e">>, <<"k","r","a","k","o","w">>, <<"l","a","t","v","i","a">>,
    <<"l","a","t","v","i","j","a">>, <<"l","a","u","s","a","n","n","e">>, <<"l","a","z","i","o">>,
    <<"l","e","e","d","s">>, <<"l","e","i","p","z","i","g">>, <<"l","i","e","t","u","v","a">>,
    <<"l","i","g","u","r","i","a">>, <<"l","i","l","l","e">>, <<"l","i","m","a","s","s","o","l">>,
    <<"l","i","m","e","r","i","c","k">>, <<"l","i","n","z">>, <<"l","i","s","b","o","a">>,
    <<"l","i","s","b","o","n">>, <<"l","i","t","h","u","a","n","i","a">>, <<"l","i","v","e","r","p","o","o","l">>,
    <<"l","j","u","b","l","j","a","n","a">>, <<"l","o","d","z">>, <<"l","o","m","b","a","r","d","i","a">>,
    <<"l","o","m","b","a","r","d","y">>, <<"l","o","n","d","o","n">>, <<"l","u","g","a","n","o">>,
    <<"l","u","x","e","m","b","o","u","r","g">>, <<"l","u","x","e","m","b","u","r","g">>, <<"l","y","o","n">>,
    <<"m","a","d","r","i","d">>, <<"m","a","g","y","a","r","o","r","s","z","a","g">>, <<"m","a","l","a","g","a">>,
    <<"m","a","l","m","o">>, <<"m","a","l","t","a">>, <<"m","a","n","c","h","e","s","t","e","r">>,
    <<"m","a","r","c","h","e">>, <<"m","a","r","i","b","o","r">>, <<"m","a","r","s","e","i","l","l","e">>,
    <<"m","i","l","a","n">>, <<"m","i","l","a","n","o">>, <<"m","o","d","e","n","a">>, <<"m","o","n","z","a">>,
    <<"m","u","n","c","h","e","n">>, <<"m","u","n","i","c","h">>, <<"n","a","n","t","e","s">>,
    <<"n","a","p","l","e","s">>, <<"n","a","p","o","l","i">>, <<"n","e","d","e","r","l","a","n","d">>,
    <<"n","e","t","h","e","r","l","a","n","d","s">>, <<"n","e","w","c","a","s","t","l","e">>, <<"n","i","c","e">>,
    <<"n","i","c","o","s","i","a">>, <<"n","o","r","t","h","e","r","n"," ","i","r","e","l","a","n","d">>,
    <<"n","o","t","t","i","n","g","h","a","m">>, <<"o","p","o","r","t","o">>,
    <<"o","s","t","e","r","r","e","i","c","h">>, <<"o","x","f","o","r","d">>, <<"p","a","d","o","v","a">>,
    <<"p","a","d","u","a">>, <<"p","a","l","e","r","m","o">>, <<"p","a","r","i","s">>, <<"p","a","r","m","a">>,
    <<"p","e","r","u","g","i","a">>, <<"p","i","e","d","m","o","n","t">>, <<"p","i","e","m","o","n","t","e">>,
    <<"p","l","o","v","d","i","v">>, <<"p","o","l","a","n","d">>, <<"p","o","l","s","k","a">>,
    <<"p","o","r","t","o">>, <<"p","o","r","t","u","g","a","l">>, <<"p","o","z","n","a","n">>,
    <<"p","r","a","g","u","e">>, <<"p","r","a","h","a">>, <<"p","u","g","l","i","a">>,
    <<"r","e","g","g","i","o"," ","e","m","i","l","i","a">>, <<"r","i","g","a">>, <<"r","i","j","e","k","a">>,
    <<"r","i","m","i","n","i">>, <<"r","o","m","a">>, <<"r","o","m","a","n","i","a">>, <<"r","o","m","e">>,
    <<"r","o","t","t","e","r","d","a","m">>, <<"s","a","l","z","b","u","r","g">>, <<"s","a","r","d","e","g","n","a">>,
    <<"s","a","r","d","i","n","i","a">>, <<"s","c","h","w","e","i","z">>, <<"s","c","o","t","l","a","n","d">>,
    <<"s","e","v","i","l","l","a">>, <<"s","e","v","i","l","l","e">>, <<"s","h","e","f","f","i","e","l","d">>,
    <<"s","i","c","i","l","i","a">>, <<"s","i","c","i","l","y">>, <<"s","l","o","v","a","k","i","a">>,
    <<"s","l","o","v","e","n","i","a">>, <<"s","l","o","v","e","n","i","j","a">>,
    <<"s","l","o","v","e","n","s","k","o">>, <<"s","o","f","i","a">>, <<"s","p","a","i","n">>,
    <<"s","p","l","i","t">>, <<"s","t","o","c","k","h","o","l","m">>, <<"s","t","r","a","s","b","o","u","r","g">>,
    <<"s","t","u","t","t","g","a","r","t">>, <<"s","u","i","s","s","e">>, <<"s","u","o","m","i">>,
    <<"s","v","e","r","i","g","e">>, <<"s","v","i","z","z","e","r","a">>, <<"s","w","e","d","e","n">>,
    <<"s","w","i","t","z","e","r","l","a","n","d">>, <<"t","a","l","l","i","n","n">>, <<"t","a","m","p","e","r","e">>,
    <<"t","a","r","t","u">>, <<"t","h","e"," ","h","a","g","u","e">>,
    <<"t","h","e","s","s","a","l","o","n","i","k","i">>, <<"t","i","m","i","s","o","a","r","a">>,
    <<"t","o","r","i","n","o">>, <<"t","o","s","c","a","n","a">>, <<"t","o","u","l","o","u","s","e">>,
    <<"t","r","e","n","t","i","n","o">>, <<"t","r","e","n","t","o">>, <<"t","r","i","e","s","t","e">>,
    <<"t","u","r","i","n">>, <<"t","u","s","c","a","n","y">>, <<"u","k">>, <<"u","m","b","r","i","a">>,
    <<"u","n","i","t","e","d"," ","k","i","n","g","d","o","m">>, <<"u","p","p","s","a","l","a">>,
    <<"u","t","r","e","c","h","t">>, <<"v","a","l","e","n","c","i","a">>, <<"v","a","l","l","e","t","t","a">>,
    <<"v","a","r","n","a">>, <<"v","e","n","e","t","o">>, <<"v","e","n","e","z","i","a">>,
    <<"v","e","n","i","c","e">>, <<"v","e","r","o","n","a">>, <<"v","i","e","n","n","a">>,
    <<"v","i","l","n","i","u","s">>, <<"w","a","l","e","s">>, <<"w","a","r","s","a","w">>,
    <<"w","a","r","s","z","a","w","a">>, <<"w","i","e","n">>, <<"w","r","o","c","l","a","w">>,
    <<"z","a","g","r","e","b">>, <<"z","a","r","a","g","o","z","a">>, <<"z","u","e","r","i","c","h">>,
    <<"z","u","r","i","c","h">>
  }

\* utils.py ITALIAN_LOCATIONS (65 entries)
ITALIAN_LOCATIONS ==
  {
    <<"a","b","r","u","z","z","o">>, <<"a","p","u","l","i","a">>, <<"b","a","r","i">>,
    <<"b","a","s","i","l","i","c","a","t","a">>, <<"b","e","r","g","a","m","o">>, <<"b","o","l","o","g","n","a">>,
    <<"b","o","l","z","a","n","o">>, <<"b","r","e","s","c","i","a">>, <<"c","a","g","l","i","a","r","i">>,
    <<"c","a","l","a","b","r","i","a">>, <<"c","a","m","p","a","n","i","a">>, <<"c","a","t","a","n","i","a">>,
    <<"e","m","i","l","i","a"," ","r","o","m","a","g","n","a">>,
    <<"e","m","i","l","i","a","-","r","o","m","a","g","n","a">>, <<"f","i","r","e","n","z","e">>,
    <<"f","l","o","r","e","n","c","e">>, <<"f","r","i","u","l","i">>,
    <<"f","r","i","u","l","i","-","v","e","n","e","z","i","a"," ","g","i","u","l","i","a">>, <<"g","e","n","o","a">>,
    <<"g","e","n","o","v","a">>, <<"i","t","a","l","i","a">>, <<"i","t","a","l","i","a","n">>,
    <<"i","t","a","l","y">>, <<"l","a","z","i","o">>, <<"l","i","g","u","r","i","a">>,
    <<"l","o","m","b","a","r","d","i","a">>, <<"l","o","m","b","a","r","d","y">>, <<"m","a","r","c","h","e">>,
    <<"m","i","l","a","n">>, <<"m","i","l","a","n","o">>, <<"m","o","d","e","n","a">>, <<"m","o","l","i","s","e">>,
    <<"m","o","n","z","a">>, <<"n","a","p","l","e","s">>, <<"n","a","p","o","l","i">>, <<"p","a","d","o","v","a">>,
    <<"p","a","d","u","a">>, <<"p","a","l","e","r","m","o">>, <<"p","a","r","m","a">>,
    <<"p","e","r","u","g","i","a">>, <<"p","i","e","d","m","o","n","t">>, <<"p","i","e","m","o","n","t","e">>,
    <<"p","u","g","l","i","a">>, <<"r","e","g","g","i","o"," ","e","m","i","l","i","a">>, <<"r","i","m","i","n","i">>,
    <<"r","o","m","a">>, <<"r","o","m","e">>, <<"s","a","r","d","e","g","n","a">>,
    <<"s","a","r","d","i","n","i","a">>, <<"s","i","c","i","l","i","a">>, <<"s","i","c","i","l","y">>,
    <<"t","o","r","i","n","o">>, <<"t","o","s","c","a","n","a">>, <<"t","r","e","n","t","i","n","o">>,
    <<"t","r","e","n","t","i","n","o","-","a","l","t","o"," ","a","d","i","g","e">>, <<"t","r","e","n","t","o">>,
    <<"t","r","i","e","s","t","e">>, <<"t","u","r","i","n">>, <<"t","u","s","c","a","n","y">>,
    <<"u","m","b","r","i","a">>, <<"v","a","l","l","e"," ","d","'","a","o","s","t","a">>, <<"v","e","n","e","t","o">>,
    <<"v","e","n","e","z","i","a">>, <<"v","e","n","i","c","e">>, <<"v","e","r","o","n","a">>
  }

\* utils.py REMOTE_KEYWORDS
REMOTE_KEYWORDS ==
  {
    <<"a","n","y","w","h","e","r","e">>, <<"f","u","l","l"," ","r","e","m","o","t","e">>,
    <<"f","u","l","l","y"," ","r","e","m","o","t","e">>, <<"g","l","o","b","a","l">>, <<"r","e","m","o","t","e">>,
    <<"r","e","m","o","t","o">>, <<"t","e","l","e","l","a","v","o","r","o">>, <<"w","f","h">>,
    <<"w","o","r","k"," ","f","r","o","m"," ","h","o","m","e">>, <<"w","o","r","l","d","w","i","d","e">>
  }

\* the local list non_eu_indicators of is_european_location
non_eu_indicators ==
  {
    <<"u","s","a">>, <<"u","s"," ">>, <<"u","n","i","t","e","d"," ","s","t","a","t","e","s">>,
    <<"a","m","e","r","i","c","a">>, <<"c","a","n","a","d","a">>, <<"a","s","i","a">>, <<"i","n","d","i","a">>,
    <<"c","h","i","n","a">>, <<"j","a","p","a","n">>, <<"a","u","s","t","r","a","l","i","a">>,
    <<"b","r","a","z","i","l">>, <<"m","e","x","i","c","o">>, <<"s","i","n","g","a","p","o","r","e">>,
    <<"h","o","n","g"," ","k","o","n","g">>, <<"i","s","r","a","e","l">>, <<"u","a","e">>, <<"d","u","b","a","i">>
  }

\* utils.py NON_EU_INDICATORS, checked in title, location, company and description
NON_EU_INDICATORS ==
  {
    <<"u","s","a">>, <<"u",".","s",".","a">>, <<"u","n","i","t","e","d"," ","s","t","a","t","e","s">>,
    <<"a","m","e","r","i","c","a">>, <<"c","a","n","a","d","a">>, <<"i","n","d","i","a">>, <<"c","h","i","n","a">>,
    <<"j","a","p","a","n">>, <<"a","u","s","t","r","a","l","i","a">>, <<"b","r","a","z","i","l">>,
    <<"m","e","x","i","c","o">>, <<"s","i","n","g","a","p","o","r","e">>, <<"h","o","n","g"," ","k","o","n","g">>,
    <<"i","s","r","a","e","l">>, <<"u","a","e">>, <<"d","u","b","a","i">>,
    <<"c","a","l","i","f","o","r","n","i","a">>, <<"n","e","w"," ","y","o","r","k">>, <<"t","e","x","a","s">>,
    <<"f","l","o","r","i","d","a">>, <<"w","a","s","h","i","n","g","t","o","n">>,
    <<"m","a","s","s","a","c","h","u","s","e","t","t","s">>, <<"s","a","n"," ","f","r","a","n","c","i","s","c","o">>,
    <<"l","o","s"," ","a","n","g","e","l","e","s">>, <<"s","e","a","t","t","l","e">>, <<"b","o","s","t","o","n">>,
    <<"c","h","i","c","a","g","o">>, <<"a","u","s","t","i","n">>, <<"d","e","n","v","e","r">>,
    <<"p","i","t","t","s","b","u","r","g","h">>, <<"a","t","l","a","n","t","a">>, <<"m","i","a","m","i">>,
    <<"p","h","o","e","n","i","x">>, <<"p","o","r","t","l","a","n","d">>, <<"s","a","n"," ","d","i","e","g","o">>,
    <<"s","a","n"," ","j","o","s","e">>, <<"r","a","l","e","i","g","h">>, <<"c","h","a","r","l","o","t","t","e">>,
    <<"n","a","s","h","v","i","l","l","e">>, <<"d","e","t","r","o","i","t">>,
    <<"m","i","n","n","e","a","p","o","l","i","s">>, <<"p","h","i","l","a","d","e","l","p","h","i","a">>,
    <<","," ","c","a">>, <<","," ","n","y">>, <<","," ","t","x">>, <<","," ","f","l">>, <<","," ","w","a">>,
    <<","," ","m","a">>, <<","," ","i","l">>, <<","," ","c","o">>, <<","," ","n","c">>, <<","," ","g","a">>,
    <<","," ","a","z">>, <<","," ","o","r">>, <<","," ","p","a">>, <<","," ","o","h">>, <<","," ","m","i">>,
    <<","," ","m","n">>, <<","," ","v","a">>, <<","," ","n","j">>, <<","," ","m","d">>
  }

(***************************************************************************)
(* src/utils.py: geography                                                 *)
(***************************************************************************)

\* is_european_location(location)
is_european_location(location) ==
  IF ~Truthy(location) THEN FALSE
  ELSE LET location_lower == Strip(Lower(location))
       IN  IF \E eu_location \in EUROPEAN_COUNTRIES : Contains(location_lower, eu_location)
           THEN TRUE
           ELSE IF \E remote_kw \in REMOTE_KEYWORDS : Contains(location_lower, remote_kw)
                THEN ~(\E indicator \in non_eu_indicators : Contains(location_lower, indicator))
                ELSE FALSE

\* is_non_eu_job with a slip: the salary is not looked at
is_non_eu_job_without_salary(job) ==
  LET text_to_check == JoinSpace(<<Lower(OrEmpty(job.title)), Lower(OrEmpty(job.location)),
                                   Lower(OrEmpty(job.company)), Lower(OrEmpty(job.description))>>)
  IN  \E indicator \in NON_EU_INDICATORS : Contains(text_to_check, indicator)

\* is_non_eu_job(job): text_to_check is the four fields, lower-cased, joined by spaces
is_non_eu_job(job) ==
  LET text_to_check == JoinSpace(<<Lower(OrEmpty(job.title)), Lower(OrEmpty(job.location)),
                                   Lower(OrEmpty(job.company)), Lower(OrEmpty(job.description))>>)
  IN  IF \E indicator \in NON_EU_INDICATORS : Contains(text_to_check, indicator)
      THEN TRUE
      ELSE IF Truthy(job.salary)
           THEN LET salary_lower == Lower(job.salary)
                IN  Contains(job.salary, <<"$">>) \/ Contains(salary_lower, <<"u","s","d">>)
           ELSE FALSE

\* filter_european_jobs(jobs)
filter_european_jobs(jobs) ==
  SelectSeq(jobs, LAMBDA job : is_european_location(job.location) /\ ~is_non_eu_job(job))

\* is_italian_location(location)
is_italian_location(location) ==
  IF ~Truthy(location) THEN FALSE
  ELSE LET location_lower == Strip(Lower(location))
       IN  \E italian_loc \in ITALIAN_LOCATIONS : Contains(location_lower, italian_loc)

\* is_remote_location(location)
is_remote_location(location) ==
  IF ~Truthy(location) THEN FALSE
  ELSE LET location_lower == Strip(Lower(location))
       IN  \E remote_kw \in REMOTE_KEYWORDS : Contains(location_lower, remote_kw)

(***************************************************************************)
(* Sample field values (str literals)                                      *)
(***************************************************************************)

\* a Python str of the samples, given by its text: the sequence of its characters
str(text) ==
  CASE text = "ML Engineer" -> <<"M","L"," ","E","n","g","i","n","e","e","r">>
    [] text = "AI Engineer" -> <<"A","I"," ","E","n","g","i","n","e","e","r">>
    [] text = "ML Engineer (m/f)" -> <<"M","L"," ","E","n","g","i","n","e","e","r"," ","(","m","/","f",")">>
    [] text = "Data Scientist - Boston" -> <<"D","a","t","a"," ","S","c","i","e","n","t","i","s","t"," ","-"," ","B","o","s","t","o","n">>
    [] text = "Web Developer," -> <<"W","e","b"," ","D","e","v","e","l","o","p","e","r",",">>
    [] text = "NLP_Engineer [LLM]" -> <<"N","L","P","_","E","n","g","i","n","e","e","r"," ","[","L","L","M","]">>
    [] text = "Acme" -> <<"A","c","m","e">>
    [] text = "Initech" -> <<"I","n","i","t","e","c","h">>
    [] text = "Milano" -> <<"M","i","l","a","n","o">>
    [] text = "Berlin, Germany" -> <<"B","e","r","l","i","n",","," ","G","e","r","m","a","n","y">>
    [] text = "Remote - Europe" -> <<"R","e","m","o","t","e"," ","-"," ","E","u","r","o","p","e">>
    [] text = "Remote" -> <<"R","e","m","o","t","e">>
    [] text = "Remote, USA" -> <<"R","e","m","o","t","e",","," ","U","S","A">>
    [] text = "New York, USA" -> <<"N","e","w"," ","Y","o","r","k",","," ","U","S","A">>
    [] text = "Napoli, Campania" -> <<"N","a","p","o","l","i",","," ","C","a","m","p","a","n","i","a">>
    [] text = "Cagliari" -> <<"C","a","g","l","i","a","r","i">>
    [] text = "Remote US " -> <<"R","e","m","o","t","e"," ","U","S"," ">>
    [] text = "London, UK" -> <<"L","o","n","d","o","n",","," ","U","K">>
    [] text = "Paris" -> <<"P","a","r","i","s">>
    [] text = "Roma (Remote)" -> <<"R","o","m","a"," ","(","R","e","m","o","t","e",")">>
    [] text = "Relocation to San Francisco" -> <<"R","e","l","o","c","a","t","i","o","n"," ","t","o"," ","S","a","n"," ","F","r","a","n","c","i","s","c","o">>
    [] text = "$120,000 USD" -> <<"$","1","2","0",",","0","0","0"," ","U","S","D">>
    [] text = "60k usd" -> <<"6","0","k"," ","u","s","d">>
    [] text = "EUR 50k" -> <<"E","U","R"," ","5","0","k">>
    [] text = "jsearch" -> <<"j","s","e","a","r","c","h">>
    [] text = "remoteok" -> <<"r","e","m","o","t","e","o","k">>
    [] text = "arbeitnow" -> <<"a","r","b","e","i","t","n","o","w">>
    [] text = "adzuna" -> <<"a","d","z","u","n","a">>
    [] text = "https://ex.io/a(1)" -> <<"h","t","t","p","s",":","/","/","e","x",".","i","o","/","a","(","1",")">>
    [] text = "seen_ids" -> <<"s","e","e","n","_","i","d","s">>
    [] text = "last_updated" -> <<"l","a","s","t","_","u","p","d","a","t","e","d">>
    [] text = "2026-11-06T09:00:00" -> <<"2","0","2","6","-","1","1","-","0","6","T","0","9",":","0","0",":","0","0">>
    [] text = "123:ABC" -> <<"1","2","3",":","A","B","C">>
    [] text = "42" -> <<"4","2">>
    [] text = "Arbeitnow" -> <<"A","r","b","e","i","t","n","o","w">>
    [] text = "RemoteOK" -> <<"R","e","m","o","t","e","O","K">>
    [] text = "Indeed" -> <<"I","n","d","e","e","d">>
    [] text = "Google Jobs" -> <<"G","o","o","g","l","e"," ","J","o","b","s">>
    [] text = "https://remoteok.com/remote-jobs/" -> <<"h","t","t","p","s",":","/","/","r","e","m","o","t","e","o","k",".","c","o","m","/","r","e","m","o","t","e","-","j","o","b","s","/">>
    [] text = " (Remote)" -> <<" ","(","R","e","m","o","t","e",")">>
    [] text = "None" -> <<"N","o","n","e">>
    [] text = "EUR" -> <<"E","U","R">>
    [] text = "LLM" -> <<"L","L","M">>
    [] text = "Acme - Milano<br>" -> <<"A","c","m","e"," ","-"," ","M","i","l","a","n","o","<","b","r",">">>
    [] text = "machine learning" -> <<"m","a","c","h","i","n","e"," ","l","e","a","r","n","i","n","g">>
    [] text = "Senior" -> <<"S","e","n","i","o","r">>
    [] text = "7" -> <<"7">>
    [] text = "JobPosting" -> <<"J","o","b","P","o","s","t","i","n","g">>
    [] text = "API Terms" -> <<"A","P","I"," ","T","e","r","m","s">>

\* 'https://ex.io/' + str(n): the url of the n-th sample record
s_url(n) == <<"h","t","t","p","s",":","/","/","e","x",".","i","o","/">> \o StrOfNat(n)


(***************************************************************************)
(* src/scrapers/base.py: the Job record                                    *)
(***************************************************************************)

\* Optional[datetime]: <<>> is None, <<d>> a datetime d.  wall is the
\* wall-clock reading in seconds since 1970-01-01T00:00:00, tzinfo is "naive"
\* or the UTC offset of an aware datetime.
NoDate == <<>>

DateTime(wall, tzinfo) == <<[wall |-> wall, tzinfo |-> tzinfo]>>

\* Job(title, company, location, url, source, description, posted_date, salary)
Job(title, company, location, url, source, description, posted_date, salary) ==
  [title |-> title, company |-> company, location |-> location, url |-> url,
   source |-> source, description |-> description, posted_date |-> posted_date,
   salary |-> salary]

\* Job.id: hashlib.md5(self.url.encode()).hexdigest(), a function of url alone
\* (md5 is taken to be collision-free on the urls of a run)
JobId(job) == <<"md5">> \o job.url

(***************************************************************************)
(* Sample records                                                          *)
(***************************************************************************)

\* a record of the samples, by its name; LongMilano, LongBerlin and HugeRemote
\* give cards of 3823, 4031 and 4186 characters
J(name) ==
  CASE name = "Milano" -> Job(str("ML Engineer"), str("Acme"), str("Milano"), s_url(1), str("jsearch"), <<>>, DateTime(1704067200, "naive"), NONE)
    [] name = "MilanoDup" -> Job(str("ML Engineer (m/f)"), str("Acme"), str("Milano"), s_url(1), str("adzuna"), <<>>, NoDate, str("EUR 50k"))
    [] name = "Berlin" -> Job(str("AI Engineer"), str("Acme"), str("Berlin, Germany"), s_url(2), str("arbeitnow"), <<>>, NoDate, NONE)
    [] name = "RemoteEurope" -> Job(str("ML Engineer"), str("Initech"), str("Remote - Europe"), s_url(3), str("remoteok"), <<>>, DateTime(1709251200, "+00:00"), NONE)
    [] name = "RemoteUSD" -> Job(str("AI Engineer"), str("Initech"), str("Remote"), s_url(4), str("remoteok"), <<>>, DateTime(1704067200, "+00:00"), str("$120,000 USD"))
    [] name = "Remote" -> Job(str("AI Engineer"), <<>>, str("Remote"), s_url(5), str("remoteok"), <<>>, DateTime(0 - 86400, "naive"), NONE)
    [] name = "NewYork" -> Job(str("ML Engineer"), str("Acme"), str("New York, USA"), s_url(6), str("jsearch"), <<>>, DateTime(1709251200, "naive"), NONE)
    [] name = "Napoli" -> Job(str("AI Engineer"), str("Acme"), str("Napoli, Campania"), s_url(7), str("adzuna"), <<>>, NoDate, NONE)
    [] name = "Boston" -> Job(str("Data Scientist - Boston"), str("Acme"), str("Remote"), s_url(8), str("jsearch"), <<>>, NoDate, NONE)
    [] name = "Cagliari" -> Job(str("Web Developer,"), NONE, str("Cagliari"), s_url(9), str("adzuna"), <<>>, DateTime(0, "naive"), NONE)
    [] name = "RemoteUS" -> Job(str("ML Engineer"), str("Initech"), str("Remote US "), s_url(10), str("remoteok"), <<>>, NoDate, NONE)
    [] name = "RemoteUSA" -> Job(str("ML Engineer"), str("Initech"), str("Remote, USA"), s_url(11), str("remoteok"), <<>>, NoDate, NONE)
    [] name = "London" -> Job(str("AI Engineer"), str("Acme"), str("London, UK"), s_url(12), str("jsearch"), str("Relocation to San Francisco"), NoDate, NONE)
    [] name = "Paris" -> Job(str("NLP_Engineer [LLM]"), str("Acme"), str("Paris"), str("https://ex.io/a(1)"), str("adzuna"), <<>>, DateTime(1709251200, "naive"), str("60k usd"))
    [] name = "NoLocation" -> Job(str("ML Engineer"), str("Acme"), NONE, s_url(13), str("jsearch"), <<>>, NoDate, NONE)
    [] name = "RomaRemote" -> Job(str("AI Engineer"), str("Initech"), str("Roma (Remote)"), s_url(14), str("jsearch"), <<>>, DateTime(1704067200, "naive"), str("EUR 50k"))
    [] name = "LongMilano" -> Job(Rep("x", 3750), str("Acme"), str("Milano"), s_url(15), str("jsearch"), <<>>, NoDate, NONE)
    [] name = "LongBerlin" -> Job(Rep("y", 3948), str("Acme"), str("Berlin, Germany"), s_url(16), str("arbeitnow"), <<>>, NoDate, NONE)
    [] name = "HugeRemote" -> Job(Rep("z", 4100), str("Initech"), str("Remote - Europe"), s_url(17), str("remoteok"), <<>>, NoDate, NONE)

(***************************************************************************)
(* src/utils.py: deduplication and the seen set                            *)
(***************************************************************************)

\* deduplicate_jobs with a slip: a repeated url replaces the record kept for it
RECURSIVE dedup_loop_keep_last(_, _, _)
dedup_loop_keep_last(jobs, seen_urls, unique_jobs) ==
  IF jobs = <<>> THEN unique_jobs
  ELSE LET job == Head(jobs)
       IN  IF job.url \notin seen_urls
           THEN dedup_loop_keep_last(Tail(jobs), seen_urls \cup {job.url}, Append(unique_jobs, job))
           ELSE dedup_loop_keep_last(Tail(jobs), seen_urls,
                                     [i \in 1..Len(unique_jobs) |->
                                        IF unique_jobs[i].url = job.url THEN job ELSE unique_jobs[i]])

\* deduplicate_jobs with a slip: unique_jobs.insert(0, job) instead of append
RECURSIVE dedup_loop_prepend(_, _, _)
dedup_loop_prepend(jobs, seen_urls, unique_jobs) ==
  IF jobs = <<>> THEN unique_jobs
  ELSE LET job == Head(jobs)
       IN  IF job.url \notin seen_urls
           THEN dedup_loop_prepend(Tail(jobs), seen_urls \cup {job.url}, <<job>> \o unique_jobs)
           ELSE dedup_loop_prepend(Tail(jobs), seen_urls, unique_jobs)

\* deduplicate_jobs(jobs): the loop over jobs, with seen_urls and unique_jobs
RECURSIVE dedup_loop(_, _, _)
dedup_loop(jobs, seen_urls, unique_jobs) ==
  IF jobs = <<>> THEN unique_jobs
  ELSE LET job == Head(jobs)
       IN  IF job.url \notin seen_urls
           THEN dedup_loop(Tail(jobs), seen_urls \cup {job.url}, Append(unique_jobs, job))
           ELSE dedup_loop(Tail(jobs), seen_urls, unique_jobs)

deduplicate_jobs(jobs) == dedup_loop(jobs, {}, <<>>)

\* filter_new_jobs(jobs, seen_ids)
filter_new_jobs(jobs, seen_ids) == SelectSeq(jobs, LAMBDA job : JobId(job) \notin seen_ids)

(***************************************************************************)
(* src/main.py: ranking (get_sort_key and sorted)                          *)
(***************************************************************************)

\* datetime.replace(tzinfo=None): the offset is dropped, the reading kept
replace_tzinfo_None(d) == [d EXCEPT !.tzinfo = "naive"]

\* datetime.timestamp() of a naive datetime, read in the local zone of the
\* host, which is UTC
timestamp(d) == d.wall

\* date_priority of get_sort_key: a datetime is always truthy
date_priority(job) ==
  IF job.posted_date # NoDate
  THEN LET posted_date == job.posted_date[1]
           date_val == IF posted_date.tzinfo # "naive"
                       THEN replace_tzinfo_None(posted_date)
                       ELSE posted_date
       IN  0 - timestamp(date_val)
  ELSE 0

\* location_priority of get_sort_key: 0 = Italy, 1 = EU, 2 = Remote
location_priority(job) ==
  LET location == OrEmpty(job.location)
  IN  IF is_italian_location(location) THEN 0
      ELSE IF is_remote_location(location) THEN 2
      ELSE 1

\* utils.get_location_priority(job): 0 = Italian (also when marked remote),
\* 2 = remote, 1 = other European
get_location_priority(job) ==
  LET location == OrEmpty(job.location)
  IN  IF is_italian_location(location) THEN 0
      ELSE IF is_remote_location(location) THEN 2
      ELSE 1

\* get_sort_key(job) == (date_priority, location_priority)
get_sort_key(job) == <<date_priority(job), location_priority(job)>>

KeyLess_by_date(a, b) == a[1] < b[1]

\* comparison of two key tuples, as Python compares tuples
KeyLess(a, b) == a[1] < b[1] \/ (a[1] = b[1] /\ a[2] < b[2])

\* sorted(jobs, key=get_sort_key).  The key of each record is computed once;
\* the sort is stable, so a record is placed after every record already
\* placed whose key is not greater.  An entry is <<key, job>>.
RECURSIVE sorted_insert(_, _)
sorted_insert(done, entry) ==
  IF done = <<>> THEN <<entry>>
  ELSE IF KeyLess(entry[1], Head(done)[1])
       THEN <<entry>> \o done
       ELSE <<Head(done)>> \o sorted_insert(Tail(done), entry)

RECURSIVE sorted_loop(_, _)
sorted_loop(jobs, done) ==
  IF jobs = <<>> THEN done
  ELSE LET entry == <<get_sort_key(Head(jobs)), Head(jobs)>>
           placed == sorted_insert(done, entry)
       IN  sorted_loop(Tail(jobs), placed)

sorted_by_key(jobs) ==
  LET done == sorted_loop(jobs, <<>>)
  IN  [i \in 1..Len(done) |-> done[i][2]]

(***************************************************************************)
(* src/telegram_bot.py: the pager                                          *)
(***************************************************************************)

\* MAX_MESSAGE_LENGTH: Telegram message character limit
MAX_MESSAGE_LENGTH == 4096

\* datetime.now().strftime("%d %b %Y"): eleven characters
today == <<"0","6"," ","N","o","v"," ","2","0","2","6">>

\* _escape_markdown(text): each of the special characters _ * [ ] and the
\* backtick (written "U+0060") gets a backslash in front
special_chars == {"_", "*", "[", "]", "U+0060"}

RECURSIVE escape_chars(_)
escape_chars(text) ==
  IF Len(text) = 0 THEN <<>>
  ELSE IF Len(text) = 1
       THEN (IF text[1] \in special_chars THEN <<"\\", text[1]>> ELSE text)
       ELSE LET mid == Len(text) \div 2
            IN  escape_chars(SubSeq(text, 1, mid)) \o escape_chars(SubSeq(text, mid + 1, Len(text)))

_escape_markdown(text) == IF ~Truthy(text) THEN <<>> ELSE escape_chars(text)

\* _escape_url(url): ( becomes %28 and ) becomes %29
RECURSIVE escape_parens(_)
escape_parens(url) ==
  IF Len(url) = 0 THEN <<>>
  ELSE IF Len(url) = 1
       THEN (IF url[1] = "(" THEN <<"%","2","8">>
             ELSE IF url[1] = ")" THEN <<"%","2","9">>
             ELSE url)
       ELSE LET mid == Len(url) \div 2
            IN  escape_parens(SubSeq(url, 1, mid)) \o escape_parens(SubSeq(url, mid + 1, Len(url)))

_escape_url(url) == IF ~Truthy(url) THEN <<>> ELSE escape_parens(url)

\* _format_job(job): the card of one record
_format_job(job) ==
  LET title == _escape_markdown(job.title)
      company == IF Truthy(job.company) THEN _escape_markdown(job.company) ELSE <<"N","/","D">>
      location == IF Truthy(job.location) THEN _escape_markdown(job.location) ELSE <<"N","/","D">>
      url == _escape_url(job.url)
  IN  <<"U+1F4BC"," ","*">> \o title \o <<"*","\n">>
      \o <<"U+1F3E2"," ">> \o company \o <<"\n">>
      \o <<"U+1F4CD"," ">> \o location \o <<"\n">>
      \o (IF Truthy(job.salary)
          THEN <<"U+1F4B0"," ">> \o _escape_markdown(job.salary) \o <<"\n">>
          ELSE <<"U+1F4B0"," ","D","a"," ","c","o","n","c","o","r","d","a","r","e","\n">>)
      \o <<"U+1F517"," ","[","C","a","n","d","i","d","a","t","i"," ","q","u","i","]","(">> \o url \o <<")","\n","\n">>

_group_jobs_remote_first(jobs) ==
  [remote |-> SelectSeq(jobs, LAMBDA job : is_remote_location(OrEmpty(job.location))),
   italy  |-> SelectSeq(jobs, LAMBDA job : ~is_remote_location(OrEmpty(job.location))
                                           /\ is_italian_location(OrEmpty(job.location))),
   europe |-> SelectSeq(jobs, LAMBDA job : ~is_italian_location(OrEmpty(job.location))
                                           /\ ~is_remote_location(OrEmpty(job.location)))]

\* _group_jobs_by_region(jobs)
_group_jobs_by_region(jobs) ==
  [italy  |-> SelectSeq(jobs, LAMBDA job : is_italian_location(OrEmpty(job.location))),
   remote |-> SelectSeq(jobs, LAMBDA job : ~is_italian_location(OrEmpty(job.location))
                                           /\ is_remote_location(OrEmpty(job.location))),
   europe |-> SelectSeq(jobs, LAMBDA job : ~is_italian_location(OrEmpty(job.location))
                                           /\ ~is_remote_location(OrEmpty(job.location)))]

\* A message under construction is the sequence of the str appended to it
\* (current_message += x appends a part); kind tells what the part is.
Part(kind, text) == [kind |-> kind, text |-> text]

\* len(message)
RECURSIVE MsgLen(_)
MsgLen(message) == IF message = <<>> THEN 0 ELSE Len(Head(message).text) + MsgLen(Tail(message))

header == Part("header", <<"U+1F514"," ","*","A","I"," ","J","o","b"," ","A","l","e","r","t","*"," ","|"," ">> \o today \o <<"\n","\n">>)

continua == Part("continua", <<"U+1F514"," ","*","A","I"," ","J","o","b"," ","A","l","e","r","t"," ","(","c","o","n","t","i","n","u","a",")","*","\n","\n">>)

rule == Rep("U+2500", 18)

sections_europe_first ==
  <<[key |-> "europe", header |-> Part("europe", rule \o <<"\n","U+1F1EA","U+1F1FA"," ","*","E","U","R","O","P","A","*","\n">> \o rule \o <<"\n","\n">>)],
    [key |-> "italy",  header |-> Part("italy",  rule \o <<"\n","U+1F1EE","U+1F1F9"," ","*","I","T","A","L","I","A","*","\n">> \o rule \o <<"\n","\n">>)],
    [key |-> "remote", header |-> Part("remote", rule \o <<"\n","U+1F30D"," ","*","R","E","M","O","T","E","*","\n">> \o rule \o <<"\n","\n">>)]>>

\* sections: (key, header) in the order italy, europe, remote
sections ==
  <<[key |-> "italy",  header |-> Part("italy",  rule \o <<"\n","U+1F1EE","U+1F1F9"," ","*","I","T","A","L","I","A","*","\n">> \o rule \o <<"\n","\n">>)],
    [key |-> "europe", header |-> Part("europe", rule \o <<"\n","U+1F1EA","U+1F1FA"," ","*","E","U","R","O","P","A","*","\n">> \o rule \o <<"\n","\n">>)],
    [key |-> "remote", header |-> Part("remote", rule \o <<"\n","U+1F30D"," ","*","R","E","M","O","T","E","*","\n">> \o rule \o <<"\n","\n">>)]>>

footer(jobs) ==
  Part("footer", <<"\n">> \o rule \o <<"\n","U+1F4CA"," ","*","T","r","o","v","a","t","i"," ">>
                 \o StrOfNat(Len(jobs)) \o <<" ","n","u","o","v","i"," ","a","n","n","u","n","c","i","*">>)

\* the inner loop with a slip: the record that opens a new message is left out of it
RECURSIVE jobs_loop_drop(_, _)
jobs_loop_drop(section_jobs, st) ==
  IF section_jobs = <<>> THEN st
  ELSE LET job_text == Part("job", _format_job(Head(section_jobs)))
       IN  IF MsgLen(st.current_message) + Len(job_text.text) > MAX_MESSAGE_LENGTH - 100
           THEN jobs_loop_drop(Tail(section_jobs),
                               [messages |-> Append(st.messages, st.current_message),
                                current_message |-> <<continua>>])
           ELSE jobs_loop_drop(Tail(section_jobs),
                               [st EXCEPT !.current_message = Append(st.current_message, job_text)])

\* the inner loop of _format_jobs_messages: for job in section_jobs.
\* st = [messages, current_message]
RECURSIVE jobs_loop(_, _)
jobs_loop(section_jobs, st) ==
  IF section_jobs = <<>> THEN st
  ELSE LET job_text == Part("job", _format_job(Head(section_jobs)))
       IN  IF MsgLen(st.current_message) + Len(job_text.text) > MAX_MESSAGE_LENGTH - 100
           THEN jobs_loop(Tail(section_jobs),
                          [messages |-> Append(st.messages, st.current_message),
                           current_message |-> <<continua, job_text>>])
           ELSE jobs_loop(Tail(section_jobs),
                          [st EXCEPT !.current_message = Append(st.current_message, job_text)])

\* the outer loop of _format_jobs_messages: for section_key, section_header in sections
RECURSIVE sections_loop(_, _, _)
sections_loop(secs, grouped, st) ==
  IF secs = <<>> THEN st
  ELSE LET section_jobs == grouped[Head(secs).key]
           section_header == Head(secs).header
       IN  IF section_jobs = <<>> THEN sections_loop(Tail(secs), grouped, st)
           ELSE LET st1 == IF MsgLen(st.current_message) + Len(section_header.text) > MAX_MESSAGE_LENGTH - 200
                           THEN [messages |-> Append(st.messages, st.current_message),
                                 current_message |-> <<continua>>]
                           ELSE st
                    st2 == [st1 EXCEPT !.current_message = Append(st1.current_message, section_header)]
                IN  sections_loop(Tail(secs), grouped, jobs_loop(section_jobs, st2))

\* the footer step with a slip: a footer that does not fit is put in front of
\* the message it did not fit in
add_footer_in_front(jobs, st) ==
  IF MsgLen(st.current_message) + Len(footer(jobs).text) > MAX_MESSAGE_LENGTH
  THEN Append(Append(st.messages, <<footer(jobs)>>), st.current_message)
  ELSE Append(st.messages, Append(st.current_message, footer(jobs)))

\* the footer step of _format_jobs_messages
add_footer(jobs, st) ==
  IF MsgLen(st.current_message) + Len(footer(jobs).text) > MAX_MESSAGE_LENGTH
  THEN Append(Append(st.messages, st.current_message), <<footer(jobs)>>)
  ELSE Append(st.messages, Append(st.current_message, footer(jobs)))

\* _format_jobs_messages(jobs): the list of messages
_format_jobs_messages(jobs) ==
  add_footer(jobs, sections_loop(sections, _group_jobs_by_region(jobs),
                                 [messages |-> <<>>, current_message |-> <<header>>]))

(***************************************************************************)
(* src/main.py: collect_jobs                                               *)
(***************************************************************************)

\* scrapers of collect_jobs, in order
scrapers == <<"jsearch", "remoteok", "arbeitnow", "adzuna">>

\* collect_jobs with a slip: the first raising scraper ends the loop
RECURSIVE collect_loop_abort(_, _, _, _)
collect_loop_abort(todo, outputs, raising, st) ==
  IF todo = <<>> THEN st
  ELSE LET scraper == Head(todo)
           called == [st EXCEPT !.invoked = Append(st.invoked, scraper)]
       IN  IF scraper \in raising
           THEN called
           ELSE collect_loop_abort(Tail(todo), outputs, raising,
                                   [called EXCEPT !.all_jobs = called.all_jobs \o outputs[scraper]])

\* the loop of collect_jobs.  outputs[s] is what s.search(KEYWORDS, LOCATIONS)
\* returns; for s in raising the call raises an Exception instead.
\* st = [all_jobs, invoked]
RECURSIVE collect_loop(_, _, _, _)
collect_loop(todo, outputs, raising, st) ==
  IF todo = <<>> THEN st
  ELSE LET scraper == Head(todo)
           called == [st EXCEPT !.invoked = Append(st.invoked, scraper)]
       IN  IF scraper \in raising
           THEN collect_loop(Tail(todo), outputs, raising, called)
           ELSE collect_loop(Tail(todo), outputs, raising,
                             [called EXCEPT !.all_jobs = called.all_jobs \o outputs[scraper]])

collect_jobs(outputs, raising) ==
  collect_loop(scrapers, outputs, raising, [all_jobs |-> <<>>, invoked |-> <<>>])

(***************************************************************************)
(* src/utils.py: the seen-set store, load_seen_jobs and save_seen_jobs      *)
(***************************************************************************)

\* A JSON value, as json.load builds it and json.dump takes it: a tagged
\* tuple.  The members of a dict are <<key, value>> pairs in file order.
JStr(s) == <<"str", s>>

JInt(n) == <<"int", n>>

JNone == <<"None">>

JList(items) == <<"list", items>>

JDict(members) == <<"dict", members>>

\* "".join(chunks)
RECURSIVE Join(_)
Join(chunks) == IF chunks = <<>> THEN <<>> ELSE Head(chunks) \o Join(Tail(chunks))

\* the text json writes for a str, an int or None
scalar_text(o) ==
  IF o[1] = "str" THEN <<"\"">> \o o[2] \o <<"\"">>
  ELSE IF o[1] = "int" THEN StrOfNat(o[2])
  ELSE <<"n","u","l","l">>

\* '\n' + ' ' * (2 * level): the line break of json.dump(..., indent=2)
newline_indent(level) == <<"\n">> \o Rep(" ", 2 * level)

\* JSONEncoder(indent=2).iterencode(o): the chunks json.dump hands to
\* f.write, in order; level is the current indent level
RECURSIVE iterencode(_, _)
RECURSIVE iterencode_list(_, _, _)
RECURSIVE iterencode_dict(_, _, _)
iterencode(o, level) ==
  IF o[1] = "list"
  THEN IF o[2] = <<>> THEN << <<"[","]">> >>
       ELSE iterencode_list(o[2], level + 1, <<"[">> \o newline_indent(level + 1))
              \o <<newline_indent(level), <<"]">>>>
  ELSE IF o[1] = "dict"
  THEN IF o[2] = <<>> THEN << <<"{","}">> >>
       ELSE << <<"{">>, newline_indent(level + 1)>>
              \o iterencode_dict(o[2], level + 1, TRUE)
              \o <<newline_indent(level), <<"}">>>>
  ELSE <<scalar_text(o)>>

iterencode_list(items, level, buf) ==
  IF items = <<>> THEN <<>>
  ELSE LET value == Head(items)
           separator == <<",">> \o newline_indent(level)
       IN  (IF value[1] \in {"list", "dict"}
            THEN <<buf>> \o iterencode(value, level)
            ELSE <<buf \o scalar_text(value)>>)
           \o iterencode_list(Tail(items), level, separator)

iterencode_dict(members, level, first) ==
  IF members = <<>> THEN <<>>
  ELSE LET key == Head(members)[1]
           value == Head(members)[2]
       IN  (IF first THEN <<>> ELSE <<<<",">> \o newline_indent(level)>>)
           \o <<scalar_text(JStr(key)), <<":"," ">>>>
           \o iterencode(value, level)
           \o iterencode_dict(Tail(members), level, FALSE)

\* the data save_seen_jobs dumps for list(seen_ids) in the given order
seen_data(id_list) ==
  JDict(<< <<str("seen_ids"), JList([i \in 1..Len(id_list) |-> JStr(id_list[i])])>>,
           <<str("last_updated"), JStr(str("2026-11-06T09:00:00"))>> >>)

\* two identities: Job.id of two sample records
id_1 == JobId([url |-> s_url(1)])

id_2 == JobId([url |-> s_url(2)])

\* every order list(seen_ids) can have, for the sets of the sample identities
IdLists == {<<>>, <<id_1>>, <<id_2>>, <<id_1, id_2>>, <<id_2, id_1>>}

\* list(seen_ids): a set iterates in an order of its own
ListsOf(seen_ids) == {l \in IdLists : {l[i] : i \in 1..Len(l)} = seen_ids /\ Len(l) = Cardinality(seen_ids)}

\* the JSON documents of the model: documents of the wrong structure (top
\* level not a dict, seen_ids not a list of str), documents without seen_ids,
\* and what save_seen_jobs writes.  json.loads(text) is the document whose
\* dump is text, and a JSONDecodeError when there is none
Documents ==
  <<JList(<<>>),
    JNone,
    JInt(5),
    JDict(<<>>),
    JDict(<< <<str("seen_ids"), JInt(5)>> >>),
    JDict(<< <<str("seen_ids"), JNone>> >>),
    JDict(<< <<str("seen_ids"), JStr(<<"a","b">>)>> >>),
    JDict(<< <<str("seen_ids"), JList(<<JInt(1), JInt(2)>>)>> >>),
    JDict(<< <<str("seen_ids"), JList(<<JList(<<JStr(<<"a">>)>>)>>)>> >>),
    JDict(<< <<str("seen_ids"), JDict(<< <<<<"k">>, JInt(1)>> >>)>> >>),
    JDict(<< <<str("last_updated"), JStr(str("2026-11-06T09:00:00"))>> >>),
    seen_data(<<>>), seen_data(<<id_1>>), seen_data(<<id_2>>), seen_data(<<id_1, id_2>>),
    seen_data(<<id_2, id_1>>)>>

dumps(o) == Join(iterencode(o, 0))

\* json.loads(text): [error, value]
loads(text) ==
  LET found == {i \in 1..Len(Documents) : dumps(Documents[i]) = text}
  IN  IF found = {} THEN [error |-> "JSONDecodeError", value |-> JNone]
      ELSE [error |-> "", value |-> Documents[CHOOSE i \in found : TRUE]]

\* data.get(key, []) for a dict data: the last member with that key
dict_get(data, key) ==
  LET at == {i \in 1..Len(data[2]) : data[2][i][1] = key}
  IN  IF at = {} THEN JList(<<>>)
      ELSE data[2][CHOOSE i \in at : \A j \in at : j <= i][2]

\* set(x): [error, value]; a str gives its characters, a dict its keys, a
\* list its elements when they are hashable
set_of(x) ==
  IF x[1] = "list"
  THEN IF \E i \in 1..Len(x[2]) : x[2][i][1] \in {"list", "dict"}
       THEN [error |-> "TypeError", value |-> {}]
       ELSE [error |-> "", value |-> {x[2][i][2] : i \in 1..Len(x[2])}]
  ELSE IF x[1] = "str" THEN [error |-> "", value |-> {x[2][i] : i \in 1..Len(x[2])}]
  ELSE IF x[1] = "dict" THEN [error |-> "", value |-> {x[2][i][1] : i \in 1..Len(x[2])}]
  ELSE [error |-> "TypeError", value |-> {}]

\* The file at filepath: state is "absent", "unreadable" (open raises an
\* IOError), "undecodable" (its bytes are not text in the locale's encoding)
\* or "text"; text is what it holds.
File(state, text) == [state |-> state, text |-> text]

TextFile(text) == File("text", text)

\* load_seen_jobs(): [raises, returns]; raises is "" when the call returns
load_seen_jobs(file) ==
  IF file.state = "absent" THEN [raises |-> "", returns |-> {}]
  ELSE IF file.state = "unreadable" THEN [raises |-> "", returns |-> {}]
  ELSE IF file.state = "undecodable" THEN [raises |-> "UnicodeDecodeError", returns |-> {}]
  ELSE LET data == loads(file.text)
       IN  IF data.error # "" THEN [raises |-> "", returns |-> {}]
           ELSE IF data.value[1] # "dict" THEN [raises |-> "AttributeError", returns |-> {}]
           ELSE LET seen == set_of(dict_get(data.value, str("seen_ids")))
                IN  [raises |-> seen.error, returns |-> seen.value]

(***************************************************************************)
(* src/scrapers: the adapters.  An item of a response is a JSON value; the  *)
(* keys of its dicts are written as TLA+ strings.  A call that may raise    *)
(* gives [raises, ...] with raises = "" when it returns.  An Optional[Job]  *)
(* is <<>> (None) or <<job>>.                                               *)
(***************************************************************************)

\* config.py: KEYWORDS, the keywords collect_jobs hands to every search
KEYWORDS ==
  <<<<"a","r","t","i","f","i","c","i","a","l"," ","i","n","t","e","l","l","i","g","e","n","c","e">>,
    <<"m","a","c","h","i","n","e"," ","l","e","a","r","n","i","n","g">>,
    <<"d","e","e","p"," ","l","e","a","r","n","i","n","g">>,
    <<"A","I"," ","e","n","g","i","n","e","e","r">>,
    <<"M","L"," ","e","n","g","i","n","e","e","r">>,
    <<"d","a","t","a"," ","s","c","i","e","n","t","i","s","t">>,
    <<"N","L","P"," ","e","n","g","i","n","e","e","r">>,
    <<"c","o","m","p","u","t","e","r"," ","v","i","s","i","o","n">>,
    <<"L","L","M">>,
    <<"p","r","o","m","p","t"," ","e","n","g","i","n","e","e","r">>,
    <<"i","n","t","e","l","l","i","g","e","n","z","a"," ","a","r","t","i","f","i","c","i","a","l","e">>,
    <<"s","v","i","l","u","p","p","a","t","o","r","e"," ","a","p","p">>,
    <<"a","p","p"," ","d","e","v","e","l","o","p","e","r">>,
    <<"m","o","b","i","l","e"," ","d","e","v","e","l","o","p","e","r">>,
    <<"i","O","S"," ","d","e","v","e","l","o","p","e","r">>,
    <<"A","n","d","r","o","i","d"," ","d","e","v","e","l","o","p","e","r">>,
    <<"s","v","i","l","u","p","p","a","t","o","r","e"," ","s","i","t","i"," ","w","e","b">>,
    <<"w","e","b"," ","d","e","v","e","l","o","p","e","r">>,
    <<"f","r","o","n","t","e","n","d"," ","d","e","v","e","l","o","p","e","r">>,
    <<"b","a","c","k","e","n","d"," ","d","e","v","e","l","o","p","e","r">>,
    <<"f","u","l","l"," ","s","t","a","c","k"," ","d","e","v","e","l","o","p","e","r">>>>

\* config.py: LOCATIONS
LOCATIONS ==
  <<<<"I","t","a","l","i","a">>,
    <<"I","t","a","l","y">>,
    <<"M","i","l","a","n","o">>,
    <<"R","o","m","a">>,
    <<"R","e","m","o","t","e">>,
    <<"R","e","m","o","t","o">>>>

\* d.get(key, default) for a dict d
get(d, key, default) ==
  LET at == {i \in 1..Len(d[2]) : d[2][i][1] = key}
  IN  IF at = {} THEN default
      ELSE d[2][CHOOSE i \in at : \A j \in at : j <= i][2]

\* bool(v): the truth value of a JSON value
bool(v) ==
  CASE v[1] = "None" -> FALSE
    [] v[1] = "int" -> v[2] # 0
    [] OTHER -> v[2] # <<>>

\* the Python value a Job field holds for a JSON value: a str is its
\* characters, None is None, any other value is kept as it is
value_of(v) == IF v[1] = "str" THEN v[2] ELSE IF v[1] = "None" THEN NONE ELSE v

\* f"{v}" for a str, an int or None
format(v) ==
  IF v[1] = "str" THEN v[2] ELSE IF v[1] = "int" THEN StrOfNat(v[2]) ELSE str("None")

\* sep.join(v): [raises, value].  A str is joined by its characters, a dict
\* by its keys, a list by its elements when all of them are str; anything
\* else is a TypeError
str_join(sep, v) ==
  LET parts == CASE v[1] = "str" -> [i \in 1..Len(v[2]) |-> <<v[2][i]>>]
                 [] v[1] = "dict" -> [i \in 1..Len(v[2]) |-> <<v[2][i][1]>>]
                 [] v[1] = "list" -> [i \in 1..Len(v[2]) |-> v[2][i][2]]
                 [] OTHER -> <<>>
      joinable == \/ v[1] \in {"str", "dict"}
                  \/ v[1] = "list" /\ \A i \in 1..Len(v[2]) : v[2][i][1] = "str"
  IN  IF ~joinable THEN [raises |-> "TypeError", value |-> <<>>]
      ELSE [raises |-> "",
            value |-> Join([i \in 1..(2 * Len(parts) - 1) |->
                              IF i % 2 = 1 THEN parts[(i + 1) \div 2] ELSE sep])]

\* item.get(key, "").lower(): [raises, value]; an item that is not a dict has
\* no get, a value that is not a str has no lower
get_lower(item, key) ==
  IF item[1] # "dict" THEN [raises |-> "AttributeError", value |-> <<>>]
  ELSE LET v == get(item, key, JStr(<<>>))
       IN  IF v[1] # "str" THEN [raises |-> "AttributeError", value |-> <<>>]
           ELSE [raises |-> "", value |-> Lower(v[2])]

\* " ".join(item.get("tags", [])).lower(): [raises, value]
tags_lower(item) ==
  IF item[1] # "dict" THEN [raises |-> "AttributeError", value |-> <<>>]
  ELSE LET tags == str_join(<<" ">>, get(item, "tags", JList(<<>>)))
       IN  [raises |-> tags.raises, value |-> Lower(tags.value)]

\* the loop over the jobs with a slip: seen_urls is never consulted
RECURSIVE jobs_loop_of_search_keep_all(_, _)
jobs_loop_of_search_keep_all(jobs, st) ==
  IF jobs = <<>> THEN st
  ELSE jobs_loop_of_search_keep_all(Tail(jobs),
                                    [all_jobs |-> Append(st.all_jobs, Head(jobs)),
                                     seen_urls |-> st.seen_urls \cup {Head(jobs).url}])

\* BaseScraper.search, lines 109-112: the loop over the jobs a get_jobs call
\* returned; st is [all_jobs, seen_urls]
RECURSIVE jobs_loop_of_search(_, _)
jobs_loop_of_search(jobs, st) ==
  IF jobs = <<>> THEN st
  ELSE LET job == Head(jobs)
       IN  IF job.url \notin st.seen_urls
           THEN jobs_loop_of_search(Tail(jobs), [all_jobs |-> Append(st.all_jobs, job),
                                                 seen_urls |-> st.seen_urls \cup {job.url}])
           ELSE jobs_loop_of_search(Tail(jobs), st)

\* the loops with a slip: the first get_jobs call that raises ends the search
RECURSIVE search_loop_until_raise(_, _)
search_loop_until_raise(calls, st) ==
  IF calls = <<>> THEN st.all_jobs
  ELSE LET results == Head(calls)
           jobs == Join([l \in 1..Len(results) |-> results[l].returns])
       IN  IF \E l \in 1..Len(results) : results[l].raises # ""
           THEN st.all_jobs
           ELSE search_loop_until_raise(Tail(calls), jobs_loop_of_search(jobs, st))

\* BaseScraper.search, lines 105-114: calls[k] holds what the get_jobs call
\* for the k-th keyword and each location gave, [raises, returns], in call
\* order.  A call that raised is logged and adds nothing, so the jobs of one
\* keyword are gone through as one list
RECURSIVE search_loop(_, _)
search_loop(calls, st) ==
  IF calls = <<>> THEN st.all_jobs
  ELSE LET results == Head(calls)
           jobs == Join([l \in 1..Len(results) |->
                           IF results[l].raises # "" THEN <<>> ELSE results[l].returns])
       IN  search_loop(Tail(calls), jobs_loop_of_search(jobs, st))

\* the get_jobs calls of a search over keywords x locations pairs: the calls
\* are answered in turn from answers, which is gone through again when it is
\* used up
get_jobs_calls(answers, keywords, locations) ==
  [k \in 1..keywords |->
     [l \in 1..locations |-> answers[(((k - 1) * locations + l - 1) % Len(answers)) + 1]]]

\* ArbeitnowScraper._parse_job(item).  fromtimestamp of an int is the local
\* time of that timestamp; of any other true value it raises a TypeError,
\* which is passed over.  The location of an item with a true "remote" is
\* taken to be a str or None
Arbeitnow_parse_job(item) ==
  IF item[1] # "dict" THEN <<>>
  ELSE LET title == get(item, "title", JStr(<<>>))
           company == get(item, "company_name", JStr(<<>>))
           location == get(item, "location", JStr(<<>>))
           url == get(item, "url", JStr(<<>>))
           created_at == get(item, "created_at", JNone)
           posted_date == IF bool(created_at) /\ created_at[1] = "int"
                          THEN DateTime(created_at[2], "naive") ELSE NoDate
           tags == get(item, "tags", JList(<<>>))
           description == IF bool(tags) THEN str_join(<<",", " ">>, tags)
                          ELSE [raises |-> "", value |-> <<>>]
       IN  IF description.raises # "" THEN <<>>
           ELSE IF ~bool(title) \/ ~bool(url) THEN <<>>
           ELSE <<Job(value_of(title), value_of(company),
                      IF bool(get(item, "remote", JInt(0)))
                      THEN (IF bool(location) THEN format(location) \o str(" (Remote)")
                            ELSE str("Remote"))
                      ELSE value_of(location),
                      value_of(url), str("Arbeitnow"), description.value, posted_date, NONE)>>

\* ArbeitnowScraper.search after the fetch, lines 119-137: the loop over
\* job_listings, outside any try: [raises, returns]
RECURSIVE Arbeitnow_search_loop(_, _, _, _)
Arbeitnow_search_loop(job_listings, keywords, all_jobs, seen_urls) ==
  IF job_listings = <<>> THEN [raises |-> "", returns |-> all_jobs]
  ELSE LET item == Head(job_listings)
           title == get_lower(item, "title")
           description == get_lower(item, "description")
           tags == tags_lower(item)
           job_location == get_lower(item, "location")
           keyword_match ==
             \E k \in 1..Len(keywords) :
               LET kw == Lower(keywords[k])
               IN  \/ Contains(title.value, kw)
                   \/ Contains(description.value, kw)
                   \/ Contains(tags.value, kw)
           job == Arbeitnow_parse_job(item)
       IN  IF title.raises # "" THEN [raises |-> title.raises, returns |-> <<>>]
           ELSE IF description.raises # "" THEN [raises |-> description.raises, returns |-> <<>>]
           ELSE IF tags.raises # "" THEN [raises |-> tags.raises, returns |-> <<>>]
           ELSE IF job_location.raises # "" THEN [raises |-> job_location.raises, returns |-> <<>>]
           ELSE IF ~keyword_match
           THEN Arbeitnow_search_loop(Tail(job_listings), keywords, all_jobs, seen_urls)
           ELSE IF job # <<>> /\ job[1].url \notin seen_urls
           THEN Arbeitnow_search_loop(Tail(job_listings), keywords, Append(all_jobs, job[1]),
                                      seen_urls \cup {job[1].url})
           ELSE Arbeitnow_search_loop(Tail(job_listings), keywords, all_jobs, seen_urls)

\* RemoteOKScraper._parse_job(item).  A true "date" that is not a str has no
\* replace: the AttributeError ends the parse with None; the str dates of
\* the model are not ISO dates, so fromisoformat raises ValueError and
\* posted_date stays None.  The items of the model hold no salary_min
RemoteOK_parse_job(item) ==
  IF item[1] # "dict" THEN <<>>
  ELSE LET title == get(item, "position", JStr(<<>>))
           company == get(item, "company", JStr(<<>>))
           location == get(item, "location", JStr(str("Remote")))
           id == get(item, "id", JStr(<<>>))
           url == IF bool(get(item, "id", JNone))
                  THEN str("https://remoteok.com/remote-jobs/") \o format(id) ELSE <<>>
           date == get(item, "date", JNone)
       IN  IF bool(date) /\ date[1] # "str" THEN <<>>
           ELSE IF ~bool(title) \/ url = <<>> THEN <<>>
           ELSE <<Job(value_of(title), value_of(company),
                      IF bool(location) THEN value_of(location) ELSE str("Remote"),
                      url, str("RemoteOK"), <<>>, NoDate, NONE)>>

\* RemoteOKScraper.get_jobs, the loop of lines 45-55 inside the try of line
\* 25: an exception raised for an item leaves the loop, it is logged and the
\* jobs appended so far are returned
RECURSIVE RemoteOK_get_jobs_loop(_, _, _)
RemoteOK_get_jobs_loop(job_listings, keyword_lower, jobs) ==
  IF job_listings = <<>> THEN jobs
  ELSE LET item == Head(job_listings)
           title == get_lower(item, "position")
           tags == tags_lower(item)
           company == get_lower(item, "company")
           description == get_lower(item, "description")
           job == RemoteOK_parse_job(item)
       IN  IF title.raises # "" \/ tags.raises # "" \/ company.raises # ""
              \/ description.raises # ""
           THEN jobs
           ELSE IF \/ Contains(title.value, keyword_lower)
                   \/ Contains(tags.value, keyword_lower)
                   \/ Contains(description.value, keyword_lower)
           THEN RemoteOK_get_jobs_loop(Tail(job_listings), keyword_lower, jobs \o job)
           ELSE RemoteOK_get_jobs_loop(Tail(job_listings), keyword_lower, jobs)

\* RemoteOKScraper.get_jobs(keyword) when the response is the list data:
\* the first element is metadata
RemoteOK_get_jobs(data, keyword) ==
  RemoteOK_get_jobs_loop(IF Len(data) > 1 THEN Tail(data) ELSE <<>>, Lower(keyword), <<>>)

\* RemoteOKScraper.search(keywords, locations): one get_jobs call for each
\* keyword, merged as in BaseScraper.search; get_jobs does not raise
RemoteOK_search(data, keywords) ==
  search_loop([k \in 1..Len(keywords) |->
                 <<[raises |-> "", returns |-> RemoteOK_get_jobs(data, keywords[k])]>>],
              [all_jobs |-> <<>>, seen_urls |-> {}])

\* IndeedScraper._parse_entry(entry): the values of a feed entry are str;
\* the entries of the model have no published_parsed
Indeed_parse_entry(entry) ==
  IF entry[1] # "dict" THEN <<>>
  ELSE LET title == get(entry, "title", JStr(<<>>))
           link == get(entry, "link", JStr(<<>>))
           summary == get(entry, "summary", JStr(<<>>))[2]
           at == {i \in 1..(Len(summary) - 2) : SubSeq(summary, i, i + 2) = <<" ", "-", " ">>}
           first == CHOOSE i \in at : \A j \in at : i <= j
           after == SubSeq(summary, first + 3, Len(summary))
           tag == {i \in 1..Len(after) : after[i] = "<"}
           company == IF at = {} THEN <<>> ELSE Strip(SubSeq(summary, 1, first - 1))
           location == IF at = {} THEN <<>>
                       ELSE IF tag = {} THEN Strip(after)
                       ELSE Strip(SubSeq(after, 1, (CHOOSE i \in tag : \A j \in tag : i <= j) - 1))
       IN  <<Job(value_of(title), company, location, value_of(link), str("Indeed"),
                 summary, NoDate, NONE)>>

\* IndeedScraper.get_jobs: the loop over feed.entries, lines 37-40
Indeed_get_jobs(entries) == Join([i \in 1..Len(entries) |-> Indeed_parse_entry(entries[i])])

\* GoogleJobsScraper._parse_json_ld(data)
Google_parse_json_ld(data) ==
  IF data[1] # "dict" THEN <<>>
  ELSE IF LET type == get(data, "@type", JNone)
          IN  type[1] # "str" \/ type[2] # str("JobPosting") THEN <<>>
  ELSE LET title == get(data, "title", JStr(<<>>))
           hiring_org == get(data, "hiringOrganization", JDict(<<>>))
           company == IF hiring_org[1] = "dict" THEN get(hiring_org, "name", JStr(<<>>))
                      ELSE JStr(<<>>)
           job_location == get(data, "jobLocation", JDict(<<>>))
           address == IF job_location[1] = "dict" THEN get(job_location, "address", JDict(<<>>))
                      ELSE JNone
           parts == IF address[1] = "dict"
                    THEN SelectSeq(<<get(address, "addressLocality", JStr(<<>>)),
                                     get(address, "addressRegion", JStr(<<>>))>>, bool)
                    ELSE <<>>
           location == str_join(<<",", " ">>, JList(parts))
           url == get(data, "url", JStr(<<>>))
           base_salary == get(data, "baseSalary", JDict(<<>>))
           value == IF base_salary[1] = "dict" THEN get(base_salary, "value", JDict(<<>>))
                    ELSE JNone
           min_val == IF value[1] = "dict" THEN get(value, "minValue", JStr(<<>>)) ELSE JNone
           max_val == IF value[1] = "dict" THEN get(value, "maxValue", JStr(<<>>)) ELSE JNone
           salary == IF bool(min_val) /\ bool(max_val)
                     THEN format(get(base_salary, "currency", JStr(str("EUR")))) \o <<" ">>
                            \o format(min_val) \o <<"-">> \o format(max_val)
                     ELSE NONE
       IN  IF location.raises # "" THEN <<>>
           ELSE IF ~bool(title) THEN <<>>
           ELSE <<Job(value_of(title), value_of(company), location.value, value_of(url),
                      str("Google Jobs"), <<>>, NoDate, salary)>>

\* GoogleJobsScraper._parse_jobs_page, lines 59-63: the JSON-LD script holds
\* the list data
Google_parse_jobs_page(data) ==
  Join([i \in 1..Len(data) |-> Google_parse_json_ld(data[i])])

(***************************************************************************)
(* State                                                                   *)
(***************************************************************************)

VARIABLES
  upstream,            \* what each origin holds: scraper name -> list of Job
  failing,             \* the origins whose search() raises an Exception
  seen_file,           \* seen_ids of data/seen_jobs.json
  seen_at_start,       \* seen_file when the current run began
  TELEGRAM_BOT_TOKEN,  \* config.py, from the environment ("" when unset)
  TELEGRAM_CHAT_ID,
  run,                 \* number of the current run of main()
  pc,                  \* position of main()
  raised,              \* collect_jobs: the scrapers whose search() raised
  invoked,             \* collect_jobs: the scrapers called, in order
  all_jobs,            \* main(): all_jobs
  unique_jobs,         \* main(): unique_jobs
  unique_again,        \* deduplicate_jobs(unique_jobs)
  european_jobs,       \* main(): european_jobs
  sorted_jobs,         \* main(): sorted_jobs, the argument of send_job_alert
  messages,            \* send_job_alert: messages
  outcomes,            \* the result of each send_message call so far, in order
  sent,                \* the text of each send_message call so far, in order
  success,             \* send_job_alert: success
  exit_status,         \* exit status of the run (0 until it fails)
  prev,                \* the previous run: what it sent and how it ended
  filepath,            \* the file data/seen_jobs.json, as load_seen_jobs and save_seen_jobs find it
  store_pc,            \* "idle", "saving" (inside save_seen_jobs), "interrupted" or "failed"
  to_write,            \* save_seen_jobs: the chunks json.dump has not written yet
  before_save,         \* what load_seen_jobs gave for the file as it was when the save began
  loaded,              \* the last load_seen_jobs call: the file it read and what it gave
  job_listings,        \* the items of the response an origin gives to an adapter
  answers,             \* what the get_jobs calls of a search give, in turn
  adapter,             \* the adapter called last ("none" before any call)
  fetched,             \* what that call gave: the exception raised ("" when none) and the list returned
  timeline,            \* what the session of a BaseScraper did so far: calls, requests, sleeps, returns
  call,                \* _make_request: its position and the loop variable attempt
  api_requests         \* the requests.get calls to API_URL that the last bulk-listing search made

vars == <<upstream, failing, seen_file, seen_at_start, TELEGRAM_BOT_TOKEN, TELEGRAM_CHAT_ID, run,
          pc, raised, invoked, all_jobs, unique_jobs, unique_again, european_jobs, sorted_jobs,
          messages, outcomes, sent, success, exit_status, prev,
          filepath, store_pc, to_write, before_save, loaded,
          job_listings, answers, adapter, fetched, timeline, call, api_requests>>

\* the seen-set store on its own: main() calls neither load_seen_jobs nor save_seen_jobs
store == <<filepath, store_pc, to_write, before_save, loaded>>

\* the adapters on their own: main() reaches them through collect_jobs only
scraper == <<job_listings, answers, adapter, fetched, timeline, call, api_requests>>

environment == <<upstream, failing, seen_file, TELEGRAM_BOT_TOKEN, TELEGRAM_CHAT_ID, store, scraper>>

(***************************************************************************)
(* Bounds and inputs                                                       *)
(***************************************************************************)

\* runs of main() followed
MaxRuns == 2

\* length of the lists given to deduplicate_jobs, sorted and _format_jobs_messages
MaxJobs == 3

\* length of the lists given to filter_european_jobs
MaxGeoJobs == 2

RECURSIVE SeqsUpTo(_, _)
SeqsUpTo(S, n) ==
  IF n = 0 THEN {<<>>}
  ELSE LET shorter == SeqsUpTo(S, n - 1)
       IN  shorter \cup {Append(s, x) : s \in {t \in shorter : Len(t) = n - 1}, x \in S}

ScraperNames == {scrapers[i] : i \in 1..Len(scrapers)}

\* what the four origins may hold
Upstreams ==
  [jsearch   : {<<>>, <<J("Milano"), J("NewYork"), J("RomaRemote")>>},
   remoteok  : {<<J("RemoteEurope"), J("RemoteUSD")>>, <<J("Remote"), J("RemoteEurope")>>},
   arbeitnow : {<<>>, <<J("Berlin")>>},
   adzuna    : {<<J("MilanoDup"), J("Napoli")>>, <<J("Berlin"), J("Paris"), J("MilanoDup")>>}]

NoUpstream == [s \in ScraperNames |-> <<>>]

SeenFiles == {{}, {JobId(J("Milano")), JobId(J("NoLocation"))}}

NoRun == [ran |-> FALSE, sorted_jobs |-> <<>>, outcomes |-> <<>>, exit_status |-> 0]

\* nothing sent yet
NothingSent == messages = <<>> /\ outcomes = <<>> /\ sent = <<>> /\ success = TRUE /\ exit_status = 0

\* no load_seen_jobs call made yet
NotLoaded == [called |-> FALSE, file |-> File("absent", <<>>), raises |-> "", returns |-> {}]

\* the store is left alone: no file, no call of load_seen_jobs or save_seen_jobs
StoreIdle ==
  /\ filepath = File("absent", <<>>)
  /\ store_pc = "idle"
  /\ to_write = <<>>
  /\ before_save = [valid |-> FALSE, returns |-> {}]
  /\ loaded = NotLoaded

\* what one get_jobs call gives when the origin has nothing
NoJobs == [raises |-> "", returns |-> <<>>]

\* no adapter called on its own
ScraperIdle ==
  /\ job_listings = <<>>
  /\ answers = <<NoJobs>>
  /\ adapter = "none"
  /\ fetched = NoJobs
  /\ timeline = <<>>
  /\ call = [pc |-> "idle", attempt |-> 0]
  /\ api_requests = 0

\* the locals of main() before it runs
Fresh ==
  /\ raised = {} /\ invoked = <<>>
  /\ all_jobs = <<>> /\ unique_jobs = <<>> /\ unique_again = <<>>
  /\ european_jobs = <<>> /\ sorted_jobs = <<>>
  /\ NothingSent

\* the bot is configured
Configured == TELEGRAM_BOT_TOKEN = str("123:ABC") /\ TELEGRAM_CHAT_ID = str("42")

\* first run, no origin holding anything: the setting of the pure functions
Idle ==
  /\ upstream = NoUpstream /\ failing = {}
  /\ seen_file = {} /\ seen_at_start = {}
  /\ Configured
  /\ run = 1 /\ prev = NoRun

Init ==
  /\ upstream \in Upstreams
  /\ failing \in {{}, {"remoteok"}, {"jsearch", "adzuna"}}
  /\ seen_file \in SeenFiles
  /\ seen_at_start = seen_file
  /\ \E config \in {<<str("123:ABC"), str("42")>>, <<<<>>, str("42")>>, <<str("123:ABC"), <<>>>>} :
       TELEGRAM_BOT_TOKEN = config[1] /\ TELEGRAM_CHAT_ID = config[2]
  /\ run = 1 /\ pc = "collect" /\ prev = NoRun
  /\ Fresh
  /\ StoreIdle
  /\ ScraperIdle

(***************************************************************************)
(* src/main.py: main(), step by step                                       *)
(***************************************************************************)

\* 1. all_jobs = collect_jobs(): the failing scrapers raise
CollectJobs ==
  /\ pc = "collect"
  /\ LET got == collect_jobs(upstream, failing)
     IN  /\ all_jobs' = got.all_jobs
         /\ invoked' = got.invoked
         /\ raised' = failing
  /\ pc' = "deduplicate"
  /\ UNCHANGED <<environment, seen_at_start, run, unique_jobs, unique_again, european_jobs,
                 sorted_jobs, messages, outcomes, sent, success, exit_status, prev>>

\* 2. unique_jobs = deduplicate_jobs(all_jobs)
Deduplicate ==
  /\ pc = "deduplicate"
  /\ unique_jobs' = deduplicate_jobs(all_jobs)
  /\ raised' = {} /\ invoked' = <<>>
  /\ pc' = "filter"
  /\ UNCHANGED <<environment, seen_at_start, run, all_jobs, unique_again, european_jobs,
                 sorted_jobs, messages, outcomes, sent, success, exit_status, prev>>

\* deduplicate_jobs applied to its own result
DeduplicateAgain ==
  /\ pc = "filter"
  /\ unique_again' = deduplicate_jobs(unique_jobs)
  /\ pc' = "deduplicated_again"
  /\ UNCHANGED <<environment, seen_at_start, run, raised, invoked, all_jobs, unique_jobs,
                 european_jobs, sorted_jobs, messages, outcomes, sent, success, exit_status, prev>>

\* 3. european_jobs = filter_european_jobs(unique_jobs)
FilterEuropean ==
  /\ pc = "filter"
  /\ european_jobs' = filter_european_jobs(unique_jobs)
  /\ pc' = "sort"
  /\ UNCHANGED <<environment, seen_at_start, run, raised, invoked, all_jobs, unique_jobs,
                 unique_again, sorted_jobs, messages, outcomes, sent, success, exit_status, prev>>

\* 4. sorted_jobs = sorted(european_jobs, key=get_sort_key)
Sort ==
  /\ pc = "sort"
  /\ sorted_jobs' = sorted_by_key(european_jobs)
  /\ pc' = "bot"
  /\ UNCHANGED <<environment, seen_at_start, run, raised, invoked, all_jobs, unique_jobs,
                 unique_again, european_jobs, messages, outcomes, sent, success, exit_status, prev>>

\* _send_no_jobs_message: the text sent when the list is empty
no_jobs_message ==
  <<Part("no_jobs", <<"*","A","I"," ","J","o","b"," ","A","l","e","r","t"," ","-"," ">> \o today
                    \o <<"*","\n","\n","_","N","e","s","s","u","n","a"," ","n","u","o","v","a"," ",
                         "o","f","f","e","r","t","a"," ","t","r","o","v","a","t","a"," ","o","g","g","i",".","_">>)>>

\* TelegramBot.__init__ raises ValueError when the token or the chat id is missing
bot_raises_ValueError == ~Truthy(TELEGRAM_BOT_TOKEN) \/ ~Truthy(TELEGRAM_CHAT_ID)

\* TelegramBot() with a slip: the token and the chat id are not looked at
CreateBotUnchecked ==
  /\ pc = "bot"
  /\ pc' = "format"
  /\ UNCHANGED <<environment, seen_at_start, run, raised, invoked, all_jobs, unique_jobs,
                 unique_again, european_jobs, sorted_jobs, messages, outcomes, sent, success,
                 exit_status, prev>>

\* 5. bot = TelegramBot(); a ValueError is caught by main(), which exits with 1
CreateBot ==
  /\ pc = "bot"
  /\ IF bot_raises_ValueError
     THEN pc' = "done" /\ exit_status' = 1
     ELSE pc' = "format" /\ exit_status' = exit_status
  /\ UNCHANGED <<environment, seen_at_start, run, raised, invoked, all_jobs, unique_jobs,
                 unique_again, european_jobs, sorted_jobs, messages, outcomes, sent, success, prev>>

\* send_job_alert with a slip: no "if not jobs" branch, the empty list is formatted too
FormatMessagesAlways ==
  /\ pc = "format"
  /\ messages' = _format_jobs_messages(sorted_jobs)
  /\ success' = TRUE
  /\ pc' = "send"
  /\ UNCHANGED <<environment, seen_at_start, run, raised, invoked, all_jobs, unique_jobs,
                 unique_again, european_jobs, sorted_jobs, outcomes, sent, exit_status, prev>>

\* bot.send_job_alert(sorted_jobs), up to its first send: the messages to send
FormatMessages ==
  /\ pc = "format"
  /\ messages' = IF sorted_jobs = <<>> THEN <<no_jobs_message>>
                 ELSE _format_jobs_messages(sorted_jobs)
  /\ success' = TRUE
  /\ pc' = "send"
  /\ UNCHANGED <<environment, seen_at_start, run, raised, invoked, all_jobs, unique_jobs,
                 unique_again, european_jobs, sorted_jobs, outcomes, sent, exit_status, prev>>

\* the send loop with a slip: return False at the first failed send
SendMessageReturnAtFailure ==
  /\ pc = "send"
  /\ Len(outcomes) < Len(messages)
  /\ \E ok \in BOOLEAN :
       /\ sent' = Append(sent, messages[Len(sent) + 1])
       /\ outcomes' = Append(outcomes, ok)
       /\ success' = (success /\ ok)
       /\ IF ok THEN pc' = pc /\ exit_status' = exit_status
                ELSE pc' = "done" /\ exit_status' = 1
  /\ UNCHANGED <<environment, seen_at_start, run, raised, invoked, all_jobs, unique_jobs,
                 unique_again, european_jobs, sorted_jobs, messages, prev>>

\* one send_message call of send_job_alert: the next message, sent or not
SendMessage ==
  /\ pc = "send"
  /\ Len(outcomes) < Len(messages)
  /\ \E ok \in BOOLEAN :
       /\ sent' = Append(sent, messages[Len(sent) + 1])
       /\ outcomes' = Append(outcomes, ok)
       /\ success' = (success /\ ok)
  /\ UNCHANGED <<environment, seen_at_start, run, pc, raised, invoked, all_jobs, unique_jobs,
                 unique_again, european_jobs, sorted_jobs, messages, exit_status, prev>>

\* the end of main() with a slip: the identities of the batch are stored
\* before success is looked at
FinishSavingSeen ==
  /\ pc = "send"
  /\ Len(outcomes) = Len(messages)
  /\ seen_file' = seen_file \cup {JobId(sorted_jobs[i]) : i \in 1..Len(sorted_jobs)}
  /\ exit_status' = IF success THEN 0 ELSE 1
  /\ pc' = "done"
  /\ UNCHANGED <<upstream, failing, TELEGRAM_BOT_TOKEN, TELEGRAM_CHAT_ID, store, scraper, seen_at_start, run,
                 raised,
                 invoked, all_jobs, unique_jobs, unique_again, european_jobs, sorted_jobs, messages,
                 outcomes, sent, success, prev>>

\* the end of main() with a slip: no sys.exit(1) when success is false
FinishWithoutExit ==
  /\ pc = "send"
  /\ Len(outcomes) = Len(messages)
  /\ pc' = "done"
  /\ UNCHANGED <<environment, seen_at_start, run, raised, invoked, all_jobs, unique_jobs,
                 unique_again, european_jobs, sorted_jobs, messages, outcomes, sent, success,
                 exit_status, prev>>

\* send_job_alert returns success; main() ends, with sys.exit(1) when not success
Finish ==
  /\ pc = "send"
  /\ Len(outcomes) = Len(messages)
  /\ exit_status' = IF success THEN 0 ELSE 1
  /\ pc' = "done"
  /\ UNCHANGED <<environment, seen_at_start, run, raised, invoked, all_jobs, unique_jobs,
                 unique_again, european_jobs, sorted_jobs, messages, outcomes, sent, success, prev>>

\* the scheduler starts main() again, on the same upstream data
NextRun ==
  /\ pc = "done"
  /\ run < MaxRuns
  /\ run' = run + 1
  /\ prev' = [ran |-> TRUE, sorted_jobs |-> sorted_jobs, outcomes |-> outcomes,
              exit_status |-> exit_status]
  /\ seen_at_start' = seen_file
  /\ pc' = "collect"
  /\ raised' = {} /\ invoked' = <<>>
  /\ all_jobs' = <<>> /\ unique_jobs' = <<>> /\ unique_again' = <<>>
  /\ european_jobs' = <<>> /\ sorted_jobs' = <<>>
  /\ messages' = <<>> /\ outcomes' = <<>> /\ sent' = <<>> /\ success' = TRUE /\ exit_status' = 0
  /\ UNCHANGED environment

Next ==
  \/ CollectJobs
  \/ Deduplicate
  \/ FilterEuropean
  \/ Sort
  \/ CreateBot
  \/ FormatMessages
  \/ SendMessage
  \/ Finish
  \/ NextRun

Spec == Init /\ [][Next]_vars

(***************************************************************************)
(* The functions of the pipeline on their own: each specification draws    *)
(* the argument from a bounded set and runs the step of main() that        *)
(* applies the function.                                                   *)
(***************************************************************************)

\* collect_jobs, for every set of raising scrapers
InitCollect ==
  /\ upstream \in Upstreams
  /\ failing \in SUBSET ScraperNames
  /\ seen_file = {} /\ seen_at_start = {}
  /\ Configured
  /\ run = 1 /\ pc = "collect" /\ prev = NoRun
  /\ Fresh
  /\ StoreIdle
  /\ ScraperIdle

SpecCollect == InitCollect /\ [][CollectJobs]_vars

\* deduplicate_jobs: records with shared and distinct urls
DedupPool == {J("Milano"), J("MilanoDup"), J("Berlin"), J("RemoteEurope")}

InitDedup ==
  /\ Idle /\ pc = "deduplicate"
  /\ all_jobs \in SeqsUpTo(DedupPool, MaxJobs)
  /\ raised = {} /\ invoked = <<>>
  /\ unique_jobs = <<>> /\ unique_again = <<>>
  /\ european_jobs = <<>> /\ sorted_jobs = <<>>
  /\ NothingSent
  /\ StoreIdle
  /\ ScraperIdle

NextDedup == Deduplicate \/ DeduplicateAgain

SpecDedup == InitDedup /\ [][NextDedup]_vars

\* filter_european_jobs: every sample record
GeoPool ==
  {J("Milano"), J("MilanoDup"), J("Berlin"), J("RemoteEurope"), J("RemoteUSD"), J("Remote"), J("NewYork"), J("Napoli"),
   J("Boston"), J("Cagliari"), J("RemoteUS"), J("RemoteUSA"), J("London"), J("Paris"), J("NoLocation"), J("RomaRemote")}

InitGeo ==
  /\ Idle /\ pc = "filter"
  /\ unique_jobs \in SeqsUpTo(GeoPool, MaxGeoJobs)
  /\ raised = {} /\ invoked = <<>>
  /\ all_jobs = unique_jobs /\ unique_again = <<>>
  /\ european_jobs = <<>> /\ sorted_jobs = <<>>
  /\ NothingSent
  /\ StoreIdle
  /\ ScraperIdle

SpecGeo == InitGeo /\ [][FilterEuropean]_vars

\* sorted(..., key=get_sort_key): records with every kind of posting date
\* (none, naive, aware, before and at the epoch) and every region
RankPool == {J("Milano"), J("Berlin"), J("RemoteEurope"), J("Remote"), J("Cagliari"), J("RomaRemote"),
             J("Paris"), J("Napoli")}

InitRank ==
  /\ Idle /\ pc = "sort"
  /\ european_jobs \in SeqsUpTo(RankPool, MaxJobs)
  /\ raised = {} /\ invoked = <<>>
  /\ all_jobs = european_jobs /\ unique_jobs = european_jobs /\ unique_again = <<>>
  /\ sorted_jobs = <<>>
  /\ NothingSent
  /\ StoreIdle
  /\ ScraperIdle

SpecRank == InitRank /\ [][Sort]_vars

PagerPool == {J("Milano"), J("RemoteEurope"), J("Paris"), J("LongMilano"), J("LongBerlin"), J("HugeRemote")}

InitPager ==
  /\ Idle /\ pc = "format"
  /\ sorted_jobs \in SeqsUpTo(PagerPool, MaxJobs)
  /\ raised = {} /\ invoked = <<>>
  /\ all_jobs = sorted_jobs /\ unique_jobs = sorted_jobs /\ unique_again = <<>>
  /\ european_jobs = sorted_jobs
  /\ NothingSent
  /\ StoreIdle
  /\ ScraperIdle

SpecPager == InitPager /\ [][FormatMessages]_vars

\* send_job_alert: the empty list, short cards and cards that fill a message
SendPool == {J("Milano"), J("LongMilano"), J("LongBerlin"), J("HugeRemote")}

InitSend ==
  /\ Idle /\ pc = "format"
  /\ sorted_jobs \in SeqsUpTo(SendPool, MaxJobs)
  /\ raised = {} /\ invoked = <<>>
  /\ all_jobs = sorted_jobs /\ unique_jobs = sorted_jobs /\ unique_again = <<>>
  /\ european_jobs = sorted_jobs
  /\ NothingSent
  /\ StoreIdle
  /\ ScraperIdle

NextSend == FormatMessages \/ SendMessage \/ Finish

SpecSend == InitSend /\ [][NextSend]_vars

(***************************************************************************)
(* src/utils.py: load_seen_jobs and save_seen_jobs, step by step           *)
(***************************************************************************)

\* the file holds what save_seen_jobs writes for some set of identities
ValidSeenFile(file) ==
  /\ file.state = "text"
  /\ \E id_list \in IdLists : file.text = dumps(seen_data(id_list))

\* the files load_seen_jobs may find
InitialFiles ==
  {File("absent", <<>>), File("unreadable", <<>>), File("undecodable", <<>>),
   TextFile(<<>>), TextFile(<<"{">>), TextFile(<<"s","e","e","n">>)}
    \cup {TextFile(dumps(Documents[i])) : i \in 1..Len(Documents)}

\* a call of load_seen_jobs()
LoadSeenJobs ==
  /\ store_pc \in {"idle", "interrupted", "failed"}
  /\ loaded' = [called |-> TRUE, file |-> filepath,
                raises |-> load_seen_jobs(filepath).raises,
                returns |-> load_seen_jobs(filepath).returns]
  /\ UNCHANGED <<filepath, store_pc, to_write, before_save>>
  /\ UNCHANGED <<upstream, failing, seen_file, seen_at_start, TELEGRAM_BOT_TOKEN, TELEGRAM_CHAT_ID,
                 run, pc, raised, invoked, all_jobs, unique_jobs, unique_again, european_jobs,
                 sorted_jobs, messages, outcomes, sent, success, exit_status, prev, scraper>>

\* save_seen_jobs(seen_ids) up to open(filepath, "w"): the file is truncated,
\* or open raises and the file stays as it was
SaveOpen ==
  /\ store_pc \in {"idle", "interrupted", "failed"}
  /\ \E seen_ids \in SUBSET {id_1, id_2} :
       \E id_list \in ListsOf(seen_ids) :
         IF filepath.state = "unreadable"
         THEN /\ store_pc' = "failed"
              /\ UNCHANGED <<filepath, to_write>>
         ELSE /\ store_pc' = "saving"
              /\ filepath' = TextFile(<<>>)
              /\ to_write' = iterencode(seen_data(id_list), 0)
  /\ before_save' = [valid |-> ValidSeenFile(filepath),
                     returns |-> IF ValidSeenFile(filepath)
                                 THEN load_seen_jobs(filepath).returns ELSE {}]
  /\ loaded' = NotLoaded
  /\ UNCHANGED <<upstream, failing, seen_file, seen_at_start, TELEGRAM_BOT_TOKEN, TELEGRAM_CHAT_ID,
                 run, pc, raised, invoked, all_jobs, unique_jobs, unique_again, european_jobs,
                 sorted_jobs, messages, outcomes, sent, success, exit_status, prev, scraper>>

\* json.dump: f.write(chunk) for the next chunk
SaveWrite ==
  /\ store_pc = "saving"
  /\ to_write # <<>>
  /\ filepath' = TextFile(filepath.text \o Head(to_write))
  /\ to_write' = Tail(to_write)
  /\ UNCHANGED <<store_pc, before_save, loaded>>
  /\ UNCHANGED <<upstream, failing, seen_file, seen_at_start, TELEGRAM_BOT_TOKEN, TELEGRAM_CHAT_ID,
                 run, pc, raised, invoked, all_jobs, unique_jobs, unique_again, european_jobs,
                 sorted_jobs, messages, outcomes, sent, success, exit_status, prev, scraper>>

\* the dump is complete, the with block closes the file, save_seen_jobs returns
SaveClose ==
  /\ store_pc = "saving"
  /\ to_write = <<>>
  /\ store_pc' = "idle"
  /\ UNCHANGED <<filepath, to_write, before_save, loaded>>
  /\ UNCHANGED <<upstream, failing, seen_file, seen_at_start, TELEGRAM_BOT_TOKEN, TELEGRAM_CHAT_ID,
                 run, pc, raised, invoked, all_jobs, unique_jobs, unique_again, european_jobs,
                 sorted_jobs, messages, outcomes, sent, success, exit_status, prev, scraper>>

\* the save stops before the dump is complete: the process is killed, or
\* f.write raises (disk full); the file keeps what was written so far
SaveInterrupted ==
  /\ store_pc = "saving"
  /\ to_write # <<>>
  /\ store_pc' = "interrupted"
  /\ to_write' = <<>>
  /\ UNCHANGED <<filepath, before_save, loaded>>
  /\ UNCHANGED <<upstream, failing, seen_file, seen_at_start, TELEGRAM_BOT_TOKEN, TELEGRAM_CHAT_ID,
                 run, pc, raised, invoked, all_jobs, unique_jobs, unique_again, european_jobs,
                 sorted_jobs, messages, outcomes, sent, success, exit_status, prev, scraper>>

InitStore ==
  /\ Idle /\ pc = "done"
  /\ Fresh
  /\ filepath \in InitialFiles
  /\ store_pc = "idle"
  /\ to_write = <<>>
  /\ before_save = [valid |-> FALSE, returns |-> {}]
  /\ loaded = NotLoaded
  /\ ScraperIdle

NextStore == LoadSeenJobs \/ SaveOpen \/ SaveWrite \/ SaveClose \/ SaveInterrupted

SpecStore == InitStore /\ [][NextStore]_vars

(***************************************************************************)
(* src/scrapers: the adapters called on their own, on a response of a few   *)
(* items or on get_jobs calls answered from a few lists                     *)
(***************************************************************************)

\* items given to an adapter in one response
MaxItems == 2

\* an item of the samples.  The same field is held under the key each
\* adapter reads it from (title and position; url, link and id); a field
\* given as <<"absent">> is left out of the item
Item(title, url, id, tags) ==
  JDict(SelectSeq(<< <<"@type", JStr(str("JobPosting"))>>,
                     <<"title", title>>, <<"position", title>>,
                     <<"url", url>>, <<"link", url>>, <<"id", id>>,
                     <<"tags", tags>>,
                     <<"summary", JStr(str("Acme - Milano<br>"))>> >>,
                  LAMBDA member : member[2][1] # "absent"))

\* the items of the samples: well-formed items (two of them with the same
\* url; the first one matches two keywords), items with a field missing
\* (title, url and id), null (title, tags), of the wrong type (title) or
\* empty (url), and an item that is not an object
Items ==
  <<Item(JStr(str("ML Engineer")), JStr(s_url(1)), JInt(1), JList(<<JStr(str("LLM"))>>)),
    Item(JStr(str("AI Engineer")), JStr(s_url(1)), JInt(1), <<"absent">>),
    Item(JStr(str("AI Engineer")), JStr(s_url(2)), JInt(2), JList(<<>>)),
    Item(<<"absent">>, JStr(s_url(3)), JInt(3), JList(<<JStr(str("machine learning"))>>)),
    Item(JStr(str("ML Engineer")), <<"absent">>, <<"absent">>, JList(<<>>)),
    Item(JNone, JStr(s_url(4)), JInt(4), JList(<<JStr(str("LLM"))>>)),
    Item(JStr(str("ML Engineer")), JStr(s_url(5)), JInt(5), JNone),
    Item(JInt(7), JStr(s_url(6)), JInt(6), JList(<<>>)),
    Item(JStr(str("AI Engineer")), JStr(<<>>), JInt(0), JList(<<>>)),
    JStr(str("Senior"))>>

\* what a get_jobs call may give: a list of records, or an exception
Answers ==
  {NoJobs,
   [raises |-> "", returns |-> <<J("Milano"), J("MilanoDup")>>],
   [raises |-> "", returns |-> <<J("Berlin"), J("Milano")>>],
   [raises |-> "ConnectionError", returns |-> <<>>]}

\* BaseScraper.search(KEYWORDS, LOCATIONS), as collect_jobs calls it
BaseSearch ==
  /\ adapter' = "base"
  /\ api_requests' = 0
  /\ fetched' = [raises |-> "",
                 returns |-> search_loop(get_jobs_calls(answers, Len(KEYWORDS), Len(LOCATIONS)),
                                         [all_jobs |-> <<>>, seen_urls |-> {}])]
  /\ UNCHANGED <<job_listings, answers>>
  /\ UNCHANGED <<upstream, failing, seen_file, seen_at_start, TELEGRAM_BOT_TOKEN, TELEGRAM_CHAT_ID,
                 run, pc, raised, invoked, all_jobs, unique_jobs, unique_again, european_jobs,
                 sorted_jobs, messages, outcomes, sent, success, exit_status, prev, store,
                 timeline, call>>

\* JSearchScraper.search: the loops of BaseScraper.search over four
\* priority_keywords and two priority_locations
JSearchSearch ==
  /\ adapter' = "JSearch"
  /\ api_requests' = 0
  /\ fetched' = [raises |-> "",
                 returns |-> search_loop(get_jobs_calls(answers, 4, 2),
                                         [all_jobs |-> <<>>, seen_urls |-> {}])]
  /\ UNCHANGED <<job_listings, answers>>
  /\ UNCHANGED <<upstream, failing, seen_file, seen_at_start, TELEGRAM_BOT_TOKEN, TELEGRAM_CHAT_ID,
                 run, pc, raised, invoked, all_jobs, unique_jobs, unique_again, european_jobs,
                 sorted_jobs, messages, outcomes, sent, success, exit_status, prev, store,
                 timeline, call>>

\* LinkedInScraper.search: the same loops over four priority_keywords and
\* four priority_locations
LinkedInSearch ==
  /\ adapter' = "LinkedIn"
  /\ api_requests' = 0
  /\ fetched' = [raises |-> "",
                 returns |-> search_loop(get_jobs_calls(answers, 4, 4),
                                         [all_jobs |-> <<>>, seen_urls |-> {}])]
  /\ UNCHANGED <<job_listings, answers>>
  /\ UNCHANGED <<upstream, failing, seen_file, seen_at_start, TELEGRAM_BOT_TOKEN, TELEGRAM_CHAT_ID,
                 run, pc, raised, invoked, all_jobs, unique_jobs, unique_again, european_jobs,
                 sorted_jobs, messages, outcomes, sent, success, exit_status, prev, store,
                 timeline, call>>

\* RemoteOKScraper.search(KEYWORDS, LOCATIONS): every get_jobs call gets the
\* same response, a metadata element followed by job_listings
RemoteOKSearch ==
  /\ adapter' = "RemoteOK"
  \* get_jobs sends requests.get(self.API_URL, ...) and search calls it for each keyword
  /\ api_requests' = Len(KEYWORDS)
  /\ fetched' = [raises |-> "",
                 returns |-> RemoteOK_search(<<JDict(<< <<"legal", JStr(str("API Terms"))>> >>)>>
                                               \o job_listings, KEYWORDS)]
  /\ UNCHANGED <<job_listings, answers>>
  /\ UNCHANGED <<upstream, failing, seen_file, seen_at_start, TELEGRAM_BOT_TOKEN, TELEGRAM_CHAT_ID,
                 run, pc, raised, invoked, all_jobs, unique_jobs, unique_again, european_jobs,
                 sorted_jobs, messages, outcomes, sent, success, exit_status, prev, store,
                 timeline, call>>

\* ArbeitnowScraper.search(KEYWORDS, LOCATIONS) when the fetch succeeds and
\* data["data"] is job_listings
ArbeitnowSearch ==
  /\ adapter' = "Arbeitnow"
  \* requests.get(self.API_URL, timeout=30), once, before the loop over the items
  /\ api_requests' = 1
  /\ fetched' = Arbeitnow_search_loop(job_listings, KEYWORDS, <<>>, {})
  /\ UNCHANGED <<job_listings, answers>>
  /\ UNCHANGED <<upstream, failing, seen_file, seen_at_start, TELEGRAM_BOT_TOKEN, TELEGRAM_CHAT_ID,
                 run, pc, raised, invoked, all_jobs, unique_jobs, unique_again, european_jobs,
                 sorted_jobs, messages, outcomes, sent, success, exit_status, prev, store,
                 timeline, call>>

\* IndeedScraper.get_jobs when feed.entries is job_listings
IndeedGetJobs ==
  /\ adapter' = "Indeed"
  /\ api_requests' = 0
  /\ fetched' = [raises |-> "", returns |-> Indeed_get_jobs(job_listings)]
  /\ UNCHANGED <<job_listings, answers>>
  /\ UNCHANGED <<upstream, failing, seen_file, seen_at_start, TELEGRAM_BOT_TOKEN, TELEGRAM_CHAT_ID,
                 run, pc, raised, invoked, all_jobs, unique_jobs, unique_again, european_jobs,
                 sorted_jobs, messages, outcomes, sent, success, exit_status, prev, store,
                 timeline, call>>

\* GoogleJobsScraper.get_jobs when the page holds one JSON-LD script, the
\* list job_listings, and no job card
GoogleGetJobs ==
  /\ adapter' = "Google Jobs"
  /\ api_requests' = 0
  /\ fetched' = [raises |-> "", returns |-> Google_parse_jobs_page(job_listings)]
  /\ UNCHANGED <<job_listings, answers>>
  /\ UNCHANGED <<upstream, failing, seen_file, seen_at_start, TELEGRAM_BOT_TOKEN, TELEGRAM_CHAT_ID,
                 run, pc, raised, invoked, all_jobs, unique_jobs, unique_again, european_jobs,
                 sorted_jobs, messages, outcomes, sent, success, exit_status, prev, store,
                 timeline, call>>

InitScrapers ==
  /\ Idle /\ pc = "done"
  /\ Fresh
  /\ StoreIdle
  /\ adapter = "none"
  /\ fetched = NoJobs
  /\ timeline = <<>>
  /\ call = [pc |-> "idle", attempt |-> 0]
  /\ api_requests = 0
  /\ \/ /\ \E chosen \in SeqsUpTo(1..Len(Items), MaxItems) :
             job_listings = [i \in 1..Len(chosen) |-> Items[chosen[i]]]
        /\ answers = <<NoJobs>>
     \/ /\ job_listings = <<>>
        /\ answers \in SeqsUpTo(Answers, MaxItems) \ {<<>>}

NextScrapers ==
  \/ BaseSearch \/ JSearchSearch \/ LinkedInSearch \/ RemoteOKSearch
  \/ ArbeitnowSearch \/ IndeedGetJobs \/ GoogleGetJobs

SpecScrapers == InitScrapers /\ [][NextScrapers]_vars

(***************************************************************************)
(* BaseScraper._make_request, one attempt at a time, as the get_jobs calls  *)
(* of BaseScraper.search reach it.  Time is counted in tenths of a second.  *)
(***************************************************************************)

MAX_RETRIES == 3

\* config.py: REQUEST_DELAY = 1.5 (seconds)
REQUEST_DELAY == 15

\* the _make_request calls of one search
MaxCalls == 2

\* what session.get or raise_for_status raises when an attempt fails
RequestExceptions == {"Timeout", "HTTPError"}

Event(ev, outcome, secs) == [ev |-> ev, outcome |-> outcome, secs |-> secs]

in_range_once(attempt) == attempt < 1

\* attempt in range(MAX_RETRIES)
in_range(attempt) == attempt < MAX_RETRIES

backoff_flat(attempt) == REQUEST_DELAY

\* the argument of time.sleep in the except branch
backoff(attempt) == REQUEST_DELAY * (attempt + 1)

\* search: get_jobs of the next (keyword, location) pair calls _make_request;
\* nothing is slept between two pairs
MakeRequest ==
  /\ call.pc # "try"
  /\ Cardinality({i \in 1..Len(timeline) : timeline[i].ev = "call"}) < MaxCalls
  /\ timeline' = Append(timeline, Event("call", "", 0))
  /\ call' = [pc |-> "try", attempt |-> 0]
  /\ UNCHANGED <<job_listings, answers, adapter, fetched, api_requests>>
  /\ UNCHANGED <<upstream, failing, seen_file, seen_at_start, TELEGRAM_BOT_TOKEN, TELEGRAM_CHAT_ID,
                 run, pc, raised, invoked, all_jobs, unique_jobs, unique_again, european_jobs,
                 sorted_jobs, messages, outcomes, sent, success, exit_status, prev, store>>

\* the try body runs to its end: the request, the sleep, return response
AttemptSucceeds ==
  /\ call.pc = "try"
  /\ timeline' = timeline \o <<Event("get", "ok", 0),
                               Event("sleep", "", REQUEST_DELAY),
                               Event("return", "response", 0)>>
  /\ call' = [call EXCEPT !.pc = "returned"]
  /\ UNCHANGED <<job_listings, answers, adapter, fetched, api_requests>>
  /\ UNCHANGED <<upstream, failing, seen_file, seen_at_start, TELEGRAM_BOT_TOKEN, TELEGRAM_CHAT_ID,
                 run, pc, raised, invoked, all_jobs, unique_jobs, unique_again, european_jobs,
                 sorted_jobs, messages, outcomes, sent, success, exit_status, prev, store>>

\* the request raises a RequestException: the except branch, then the next
\* attempt of the loop, or return None when the loop is over
AttemptFails ==
  /\ call.pc = "try"
  /\ \E e \in RequestExceptions :
       timeline' = timeline
                     \o <<Event("get", e, 0)>>
                     \o (IF call.attempt < MAX_RETRIES - 1
                           THEN <<Event("sleep", "", backoff(call.attempt))>> ELSE <<>>)
                     \o (IF in_range(call.attempt + 1)
                           THEN <<>> ELSE <<Event("return", "None", 0)>>)
  /\ call' = [pc |-> IF in_range(call.attempt + 1) THEN "try" ELSE "returned",
              attempt |-> call.attempt + 1]
  /\ UNCHANGED <<job_listings, answers, adapter, fetched, api_requests>>
  /\ UNCHANGED <<upstream, failing, seen_file, seen_at_start, TELEGRAM_BOT_TOKEN, TELEGRAM_CHAT_ID,
                 run, pc, raised, invoked, all_jobs, unique_jobs, unique_again, european_jobs,
                 sorted_jobs, messages, outcomes, sent, success, exit_status, prev, store>>

InitRequest ==
  /\ Idle /\ pc = "done"
  /\ Fresh
  /\ StoreIdle
  /\ ScraperIdle

NextRequest == MakeRequest \/ AttemptSucceeds \/ AttemptFails

SpecRequest == InitRequest /\ [][NextRequest]_vars

\* session.get is given timeout=REQUEST_TIMEOUT and time.sleep returns: an
\* attempt that began ends, one way or the other
SpecRequestFair == SpecRequest /\ WF_vars(AttemptSucceeds \/ AttemptFails)

(***************************************************************************)
(* The properties of the specification, each stated over the model above.  *)
(***************************************************************************)

\* C1: when main() runs twice in a row on the same upstream data and every
\* chunk of the first run was delivered, the second run hands an empty list
\* to send_job_alert (only the "no results" notice is sent).
C1_SecondRunDeliversNothing ==
  (/\ run >= 2
   /\ prev.ran
   /\ prev.exit_status = 0
   /\ prev.outcomes # <<>>
   /\ \A i \in 1..Len(prev.outcomes) : prev.outcomes[i]
   /\ pc \in {"format", "send", "done"}
   /\ ~bot_raises_ValueError)
  => /\ sorted_jobs = <<>>
     /\ pc \in {"send", "done"} => messages = <<no_jobs_message>>

\* C2: after a run of main() in which every chunk was delivered, the stored
\* seen-set is the seen-set stored before the run united with the identities
\* of the records delivered in the run.
C2_SeenSetAdvancesOnSuccess ==
  (/\ pc = "done"
   /\ exit_status = 0
   /\ messages # <<>>
   /\ Len(outcomes) = Len(messages)
   /\ \A i \in 1..Len(outcomes) : outcomes[i])
  => seen_file = seen_at_start \cup {JobId(sorted_jobs[i]) : i \in 1..Len(sorted_jobs)}

\* C3: if the send of any chunk fails during a run of main(), the stored
\* seen-set after the run is the seen-set stored before the run.
C3_FailedDeliveryLeavesSeenSet ==
  (pc = "done" /\ \E i \in 1..Len(outcomes) : ~outcomes[i])
  => seen_file = seen_at_start

\* a run with records to deliver has ended after a failed send
C3_Witness ==
  /\ pc = "done"
  /\ sorted_jobs # <<>>
  /\ \E i \in 1..Len(outcomes) : ~outcomes[i]
  /\ exit_status = 1
  /\ \E i \in 1..Len(sorted_jobs) : JobId(sorted_jobs[i]) \notin seen_at_start

\* C4: for every set of scrapers whose search() raises, collect_jobs returns
\* the concatenation, in scraper order, of the lists returned by the scrapers
\* that did not raise; a raising scraper contributes nothing and every
\* scraper after it is still invoked.
C4_CollectIsolatesFailures ==
  pc = "deduplicate" =>
    LET returned(i) == IF scrapers[i] \in raised THEN <<>> ELSE upstream[scrapers[i]]
    IN  /\ all_jobs = returned(1) \o returned(2) \o returned(3) \o returned(4)
        /\ invoked = scrapers

\* a scraper raised and a later scraper that returned records was still called
C4_Witness ==
  /\ pc = "deduplicate"
  /\ \E i, j \in 1..Len(scrapers) :
       /\ i < j
       /\ scrapers[i] \in raised
       /\ upstream[scrapers[i]] # <<>>
       /\ scrapers[j] \notin raised
       /\ upstream[scrapers[j]] # <<>>
  /\ all_jobs # <<>>

\* C5: deduplicate_jobs returns a list in which no two records share a url,
\* every url of the input occurs, and the record kept for a url is the first
\* record with that url in input order.
C5_DedupKeepsFirstPerUrl ==
  pc \in {"filter", "deduplicated_again"} =>
    /\ \A i, j \in 1..Len(unique_jobs) : i # j => unique_jobs[i].url # unique_jobs[j].url
    /\ \A i \in 1..Len(all_jobs) : \E k \in 1..Len(unique_jobs) : unique_jobs[k].url = all_jobs[i].url
    /\ \A k \in 1..Len(unique_jobs) :
         \E i \in 1..Len(all_jobs) :
           /\ all_jobs[i] = unique_jobs[k]
           /\ \A h \in 1..(i - 1) : all_jobs[h].url # unique_jobs[k].url

\* the input held two different records with one url
C5_Witness ==
  /\ pc = "filter"
  /\ \E i, j \in 1..Len(all_jobs) :
       i < j /\ all_jobs[i].url = all_jobs[j].url /\ all_jobs[i] # all_jobs[j]
  /\ Len(unique_jobs) < Len(all_jobs)

\* C6: deduplicate_jobs(deduplicate_jobs(x)) equals deduplicate_jobs(x), and
\* the output is a subsequence of x: the surviving records keep their
\* relative input order.
C6_DedupIdempotentOrdered ==
  /\ pc = "deduplicated_again" => unique_again = unique_jobs
  /\ pc \in {"filter", "deduplicated_again"} =>
       \E at \in [1..Len(unique_jobs) -> 1..Len(all_jobs)] :
         /\ \A i, j \in 1..Len(unique_jobs) : i < j => at[i] < at[j]
         /\ \A i \in 1..Len(unique_jobs) : all_jobs[at[i]] = unique_jobs[i]

\* a list with a repeated url was deduplicated twice and two records survive
C6_Witness ==
  /\ pc = "deduplicated_again"
  /\ Len(unique_jobs) >= 2
  /\ Len(unique_jobs) < Len(all_jobs)

\* C7: in the list produced by the sort in main(), a record with a posting
\* date precedes every record without one, and of two dated records the one
\* with the later date comes first, whatever the dates are.
C7_RankedByDate ==
  pc = "bot" =>
    \A i, j \in 1..Len(sorted_jobs) :
      i < j =>
        LET a == sorted_jobs[i]
            b == sorted_jobs[j]
        IN  /\ b.posted_date # NoDate => a.posted_date # NoDate
            /\ (a.posted_date # NoDate /\ b.posted_date # NoDate)
                 => a.posted_date[1].wall >= b.posted_date[1].wall

C9_EveryMessageWithinLimit ==
  (pc = "send" /\ sorted_jobs # <<>>)
  => \A i \in 1..Len(messages) : MsgLen(messages[i]) <= MAX_MESSAGE_LENGTH

\* C10: each record's card appears whole in exactly one message, so the
\* cards over all messages are the cards of the input records, each as many
\* times as the input holds it.
C10_CardsWholeAndOnce ==
  (pc = "send" /\ sorted_jobs # <<>>) =>
    LET cards == [i \in 1..Len(sorted_jobs) |-> _format_job(sorted_jobs[i])]
        places == UNION {{<<m, k>> : k \in {h \in 1..Len(messages[m]) : messages[m][h].kind = "job"}} :
                           m \in 1..Len(messages)}
    IN  /\ Cardinality(places) = Len(sorted_jobs)
        /\ \A i \in 1..Len(cards) :
             Cardinality({p \in places : messages[p[1]][p[2]].text = cards[i]})
               = Cardinality({k \in 1..Len(cards) : cards[k] = cards[i]})

\* the records were spread over more than one message
C10_Witness ==
  /\ pc = "send"
  /\ Len(sorted_jobs) >= 2
  /\ Len(messages) >= 2
  /\ \E m \in 1..Len(messages) :
       Len(messages[m]) >= 2 /\ messages[m][1].kind = "continua" /\ messages[m][2].kind = "job"

\* C11: in the messages of _format_jobs_messages every section header
\* (ITALIA, EUROPA, REMOTE) is followed, in the same message, by the card of
\* the first record of its section; no message ends with a section header.
C11_HeaderStaysWithFirstCard ==
  (pc = "send" /\ sorted_jobs # <<>>) =>
    LET grouped == _group_jobs_by_region(sorted_jobs)
    IN  \A m \in 1..Len(messages) :
          \A k \in 1..Len(messages[m]) :
            messages[m][k].kind \in {"italy", "europe", "remote"} =>
              /\ k < Len(messages[m])
              /\ messages[m][k + 1] = Part("job", _format_job(grouped[messages[m][k].kind][1]))

\* C12: send_job_alert on a non-empty list calls send_message once per
\* message, in the order of the messages, goes on to message N+1 whatever
\* send_message returned for message N, and returns True if and only if every
\* send_message call returned True.
C12_OrderedExhaustiveDelivery ==
  /\ []((pc \in {"send", "done"} /\ sorted_jobs # <<>> /\ ~bot_raises_ValueError) =>
          /\ Len(sent) = Len(outcomes)
          /\ Len(sent) <= Len(messages)
          /\ \A i \in 1..Len(sent) : sent[i] = messages[i]
          /\ success = (\A i \in 1..Len(outcomes) : outcomes[i])
          /\ pc = "done" => /\ sent = messages
                            /\ (exit_status = 0) = (\A i \in 1..Len(outcomes) : outcomes[i]))
  /\ [][(pc = "send" /\ sorted_jobs # <<>> /\ Len(sent) < Len(messages)) =>
          /\ pc' = "send"
          /\ sent' = Append(sent, messages[Len(sent) + 1])
          /\ Len(outcomes') = Len(outcomes) + 1
          /\ messages' = messages]_vars

\* three messages were sent in order although the first send failed
C12_Witness ==
  /\ pc = "done"
  /\ sorted_jobs # <<>>
  /\ Len(messages) >= 3
  /\ sent = messages
  /\ ~outcomes[1] /\ outcomes[2] /\ outcomes[3]
  /\ exit_status = 1

\* C13: send_job_alert called with an empty list sends exactly one message,
\* the "no results" notice, sends no job card, and returns the result of that
\* one send.
C13_EmptyBatchSendsNotice ==
  (sorted_jobs = <<>> /\ pc \in {"send", "done"} /\ ~bot_raises_ValueError) =>
    /\ messages = <<no_jobs_message>>
    /\ \A i \in 1..Len(sent) : sent[i] = no_jobs_message
    /\ Len(sent) <= 1
    /\ Len(outcomes) = Len(sent)
    /\ pc = "done" => /\ Len(sent) = 1
                      /\ success = outcomes[1]
                      /\ (exit_status = 0) = outcomes[1]

\* the notice was sent for an empty list and the send failed
C13_Witness ==
  /\ pc = "done"
  /\ sorted_jobs = <<>>
  /\ sent = <<no_jobs_message>>
  /\ outcomes = <<FALSE>>
  /\ ~success

\* C14: if the bot token or the chat id is missing, the run of main() ends
\* with a non-zero exit status and no send_message call is made in that run.
C14_MissingConfigurationIsFatal ==
  (~Truthy(TELEGRAM_BOT_TOKEN) \/ ~Truthy(TELEGRAM_CHAT_ID)) =>
    /\ sent = <<>>
    /\ outcomes = <<>>
    /\ pc \notin {"format", "send"}
    /\ pc = "done" => exit_status # 0

\* a run with records to deliver ended at TelegramBot() for want of a chat id
C14_Witness ==
  /\ pc = "done"
  /\ Truthy(TELEGRAM_BOT_TOKEN)
  /\ ~Truthy(TELEGRAM_CHAT_ID)
  /\ sorted_jobs # <<>>
  /\ exit_status = 1
  /\ sent = <<>>

\* C15: main() ends with a failure exit status if and only if delivery was
\* not fully successful (some send returned False or the bot could not be
\* configured); when every message is delivered the run ends without a
\* failure exit.
C15_ExitStatusSignalsDelivery ==
  pc = "done" =>
    LET delivered == /\ ~bot_raises_ValueError
                     /\ sent = messages
                     /\ messages # <<>>
                     /\ \A i \in 1..Len(outcomes) : outcomes[i]
    IN  /\ (exit_status # 0) = ~delivered
        /\ delivered => exit_status = 0
        /\ (exit_status # 0) = (bot_raises_ValueError \/ \E i \in 1..Len(outcomes) : ~outcomes[i])

\* a configured run ended with a failure exit after a send returned False
C15_Witness ==
  /\ pc = "done"
  /\ ~bot_raises_ValueError
  /\ sorted_jobs # <<>>
  /\ \E i \in 1..Len(outcomes) : ~outcomes[i]
  /\ exit_status = 1

\* C16: load_seen_jobs never raises and returns the empty set for every bad
\* state of the file: absent, unreadable, not valid JSON, or valid JSON of
\* the wrong structure (top level not an object, or seen_ids not a list of
\* strings).
C16_LoadRecoversFromBadFile ==
  LET file == loaded.file
      data == loads(file.text)
      seen == dict_get(data.value, str("seen_ids"))
      bad == \/ file.state # "text"
             \/ data.error # ""
             \/ data.value[1] # "dict"
             \/ seen[1] # "list"
             \/ \E i \in 1..Len(seen[2]) : seen[2][i][1] # "str"
  IN  (loaded.called /\ bad) => (loaded.raises = "" /\ loaded.returns = {})

\* C17: if a save_seen_jobs is interrupted or fails at any point, a
\* following load_seen_jobs returns the set that was stored before the save
\* began: the earlier valid seen-set is never left truncated or partly
\* written.
C17_SaveIsCrashAtomic ==
  (/\ store_pc \in {"interrupted", "failed"}
   /\ before_save.valid
   /\ loaded.called)
  => /\ loaded.raises = ""
     /\ loaded.returns = before_save.returns

\* C18: the list a search returns never holds two records with the same
\* url, for the base search and for the searches of RemoteOK, Arbeitnow,
\* JSearch and LinkedIn, whatever the get_jobs calls return.
C18_SearchReturnsUniqueUrls ==
  (adapter \in {"base", "RemoteOK", "Arbeitnow", "JSearch", "LinkedIn"} /\ fetched.raises = "") =>
    \A i, j \in 1..Len(fetched.returns) :
      i # j => fetched.returns[i].url # fetched.returns[j].url

\* a base search returned several records after two get_jobs calls gave a
\* record with the same url
C18_Witness ==
  /\ adapter = "base"
  /\ Len(fetched.returns) >= 2
  /\ \E a, b \in 1..Len(answers) :
       /\ a # b
       /\ \E i \in 1..Len(answers[a].returns), j \in 1..Len(answers[b].returns) :
            answers[a].returns[i].url = answers[b].returns[j].url

\* C19: every record an adapter returns has a non-empty title and a
\* non-empty url, the adapters Indeed and Google Jobs included: an item
\* missing either is dropped by the adapter.
C19_RecordsHaveTitleAndUrl ==
  (adapter # "none" /\ fetched.raises = "") =>
    \A r \in 1..Len(fetched.returns) :
      /\ Truthy(fetched.returns[r].title)
      /\ Truthy(fetched.returns[r].url)

\* C20: when exactly one item of a response is malformed (a field missing,
\* null or of the wrong type, or the item not an object), the search of
\* Arbeitnow and of RemoteOK does not raise and every well-formed item after
\* the malformed one that matches a keyword is still returned.
C20_MalformedItemIsSkipped ==
  LET wellformed(item) ==
        /\ item[1] = "dict"
        /\ LET title == get(item, "title", JNone)
               url == get(item, "url", JNone)
               tags == get(item, "tags", JList(<<>>))
           IN  /\ title[1] = "str" /\ title[2] # <<>>
               /\ url[1] = "str" /\ url[2] # <<>>
               /\ tags[1] = "list" /\ \A t \in 1..Len(tags[2]) : tags[2][t][1] = "str"
      malformed == {i \in 1..Len(job_listings) : ~wellformed(job_listings[i])}
      matches(item) ==
        \E k \in 1..Len(KEYWORDS) :
          \/ Contains(get_lower(item, "title").value, Lower(KEYWORDS[k]))
          \/ Contains(tags_lower(item).value, Lower(KEYWORDS[k]))
      parsed(item) == IF adapter = "Arbeitnow" THEN Arbeitnow_parse_job(item)
                      ELSE RemoteOK_parse_job(item)
  IN  (adapter \in {"Arbeitnow", "RemoteOK"} /\ Cardinality(malformed) = 1) =>
        /\ fetched.raises = ""
        /\ \A i \in 1..Len(job_listings) :
             ((\E bad \in malformed : bad < i) /\ matches(job_listings[i])) =>
               \E r \in 1..Len(fetched.returns) :
                 fetched.returns[r].url = parsed(job_listings[i])[1].url

\* C21: the list main() hands to send_job_alert is exactly the records of
\* deduplicate_jobs(the concatenated outputs of the adapters that did not
\* fail) that pass the geographic filter and whose identity is not in the
\* seen-set the run started with, in ranked order.
C21_PipelineComposition ==
  pc \in {"bot", "format", "send", "done"} =>
    sorted_jobs =
      sorted_by_key(filter_new_jobs(
        filter_european_jobs(deduplicate_jobs(collect_jobs(upstream, failing).all_jobs)),
        seen_at_start))

\* C22: one _make_request call issues at most MAX_RETRIES requests; the
\* (k+1)-th request of a call comes right after the k-th one failed and a
\* sleep of REQUEST_DELAY*k, so the sleeps grow strictly within a call; once
\* the MAX_RETRIES-th request failed the call returns with no further sleep
\* or request.
C22_BoundedRetryWithBackoff ==
  \A c \in {i \in 1..Len(timeline) : timeline[i].ev = "call"} :
    LET later == {i \in (c + 1)..Len(timeline) : timeline[i].ev = "call"}
        end == IF later = {} THEN Len(timeline)
               ELSE (CHOOSE i \in later : \A j \in later : i <= j) - 1
        gets == {i \in c..end : timeline[i].ev = "get"}
        nth(i) == Cardinality({j \in gets : j <= i})
        sleeps == {i \in c..end : timeline[i].ev = "sleep" /\ (i + 1) \in gets}
    IN  /\ Cardinality(gets) <= MAX_RETRIES
        /\ \A i \in gets : nth(i) > 1 =>
             /\ timeline[i - 1].ev = "sleep"
             /\ timeline[i - 1].secs = REQUEST_DELAY * (nth(i) - 1)
             /\ timeline[i - 2].ev = "get" /\ timeline[i - 2].outcome # "ok"
        /\ \A i, j \in sleeps : i < j => timeline[i].secs < timeline[j].secs
        /\ \A i \in gets : (nth(i) = MAX_RETRIES /\ timeline[i].outcome # "ok") =>
             /\ i + 1 <= end
             /\ timeline[i + 1].ev = "return"
             /\ i + 1 = end

\* a call whose MAX_RETRIES requests all failed, and a call after it
C22_Witness ==
  /\ Cardinality({i \in 1..Len(timeline) : timeline[i].ev = "call"}) = 2
  /\ Cardinality({i \in 1..Len(timeline) :
                    timeline[i].ev = "get" /\ timeline[i].outcome # "ok"}) >= MAX_RETRIES
  /\ \E i \in 1..Len(timeline) : timeline[i].ev = "return" /\ timeline[i].outcome = "None"
  /\ \E i \in 1..Len(timeline) : timeline[i].ev = "sleep" /\ timeline[i].secs = REQUEST_DELAY * 2

\* C23: between any two consecutive requests of the session, in one call or
\* in two successive calls, a sleep of at least REQUEST_DELAY happens,
\* whether the earlier request succeeded or failed.
C23_MinimumDelayBetweenRequests ==
  \A i, j \in {k \in 1..Len(timeline) : timeline[k].ev = "get"} :
    (i < j /\ \A k \in (i + 1)..(j - 1) : timeline[k].ev # "get") =>
      \E k \in (i + 1)..(j - 1) :
        timeline[k].ev = "sleep" /\ timeline[k].secs >= REQUEST_DELAY

\* C28: a _make_request call that began ends; it returns a response exactly
\* when one of its at most MAX_RETRIES requests succeeded, that request being
\* its last; it returns None exactly when MAX_RETRIES requests were made and
\* every one raised a RequestException.
C28_MakeRequestOutcome ==
  /\ [](\A c \in {i \in 1..Len(timeline) : timeline[i].ev = "call"} :
          LET later == {i \in (c + 1)..Len(timeline) : timeline[i].ev = "call"}
              end == IF later = {} THEN Len(timeline)
                     ELSE (CHOOSE i \in later : \A j \in later : i <= j) - 1
              gets == {i \in c..end : timeline[i].ev = "get"}
              ok == {i \in gets : timeline[i].outcome = "ok"}
              returns == {i \in c..end : timeline[i].ev = "return"}
              ended == later # {} \/ call.pc = "returned"
          IN  /\ Cardinality(returns) <= 1
              /\ ended <=> returns # {}
              /\ \A r \in returns :
                   /\ r = end
                   /\ timeline[r].outcome \in {"response", "None"}
                   /\ timeline[r].outcome = "response" <=> ok # {}
                   /\ timeline[r].outcome = "None" <=>
                        (Cardinality(gets) = MAX_RETRIES /\ ok = {})
              /\ Cardinality(gets) <= MAX_RETRIES
              /\ \A i \in ok : \A j \in gets : j <= i)
  /\ (call.pc = "try" ~> call.pc = "returned")

\* the first request of a call failed, the second gave the response
C28_Witness ==
  /\ call.pc = "returned" /\ call.attempt = 1
  /\ timeline[Len(timeline)].outcome = "response"

\* C24: one search(keywords, locations) call of a bulk-listing adapter
\* (Arbeitnow, RemoteOK) sends exactly one HTTP request to its origin,
\* whatever the number of keywords and locations.
C24_BulkAdaptersFetchOnce ==
  adapter \in {"Arbeitnow", "RemoteOK"} => api_requests = 1

\* C25: in the list main() sorts, two records with the same date key stand
\* in the order of their location priority, home country (0) before other
\* European (1) before remote (2), and the records that agree on both keys
\* stand in the order they had in the deduplicated, filtered input.
C25_SecondaryKeyAndStability ==
  pc = "bot" =>
    /\ Len(sorted_jobs) = Len(european_jobs)
    /\ \A i, j \in 1..Len(sorted_jobs) :
         (i < j /\ date_priority(sorted_jobs[i]) = date_priority(sorted_jobs[j])) =>
           location_priority(sorted_jobs[i]) <= location_priority(sorted_jobs[j])
    /\ \A job \in {european_jobs[i] : i \in 1..Len(european_jobs)} :
         LET SameKey(other) == get_sort_key(other) = get_sort_key(job)
         IN  SelectSeq(sorted_jobs, SameKey) = SelectSeq(european_jobs, SameKey)
    /\ \A job \in RankPool : location_priority(job) \in {0, 1, 2}

\* an other-European record came first and two distinct home-country records
\* with its date key after it: the sort moved both in front, in their order
C25_Witness ==
  /\ pc = "bot"
  /\ Len(european_jobs) = 3
  /\ date_priority(european_jobs[1]) = date_priority(european_jobs[2])
  /\ date_priority(european_jobs[2]) = date_priority(european_jobs[3])
  /\ location_priority(european_jobs[1]) = 1
  /\ location_priority(european_jobs[2]) = 0
  /\ location_priority(european_jobs[3]) = 0
  /\ european_jobs[2] # european_jobs[3]
  /\ sorted_jobs = <<european_jobs[2], european_jobs[3], european_jobs[1]>>

\* C26: every location, None included, has exactly one region class;
\* a location that is both Italian and remote is home-country; the priority of
\* get_sort_key, utils.get_location_priority and the group that
\* _group_jobs_by_region puts a record in agree (0 = italy, 1 = europe,
\* 2 = remote), so the three groups of the list main() delivers partition it.
C26_RegionClassIsOneFunction ==
  /\ pc = "format" => \A job \in GeoPool :
       LET grouped == _group_jobs_by_region(<<job>>)
           location == OrEmpty(job.location)
       IN  /\ Len(grouped.italy) + Len(grouped.europe) + Len(grouped.remote) = 1
           /\ location_priority(job) = get_location_priority(job)
           /\ grouped.italy = <<job>> <=> location_priority(job) = 0
           /\ grouped.europe = <<job>> <=> location_priority(job) = 1
           /\ grouped.remote = <<job>> <=> location_priority(job) = 2
           /\ (is_italian_location(location) /\ is_remote_location(location)) =>
                grouped.italy = <<job>>
  /\ pc \in {"send", "done"} =>
       LET grouped == _group_jobs_by_region(sorted_jobs)
       IN  /\ grouped.italy = SelectSeq(sorted_jobs, LAMBDA job : get_location_priority(job) = 0)
           /\ grouped.europe = SelectSeq(sorted_jobs, LAMBDA job : location_priority(job) = 1)
           /\ grouped.remote = SelectSeq(sorted_jobs, LAMBDA job : location_priority(job) = 2)
           /\ Len(grouped.italy) + Len(grouped.europe) + Len(grouped.remote) = Len(sorted_jobs)

\* the delivered list has a record of each class, one of them Italian and remote
C26_Witness ==
  /\ pc = "send" /\ messages # <<>>
  /\ \E i \in 1..Len(sorted_jobs) :
       /\ is_italian_location(OrEmpty(sorted_jobs[i].location))
       /\ is_remote_location(OrEmpty(sorted_jobs[i].location))
  /\ \E i \in 1..Len(sorted_jobs) : location_priority(sorted_jobs[i]) = 1
  /\ \E i \in 1..Len(sorted_jobs) : location_priority(sorted_jobs[i]) = 2

C29_SearchIsolatesEachPair ==
  adapter = "base" =>
    LET calls == Join(get_jobs_calls(answers, Len(KEYWORDS), Len(LOCATIONS)))
        returned == {i \in 1..Len(calls) : calls[i].raises = ""}
        urls == {fetched.returns[i].url : i \in 1..Len(fetched.returns)}
    IN  /\ fetched.raises = ""
        /\ Len(calls) = Len(KEYWORDS) * Len(LOCATIONS)
        /\ \A i \in returned : \A n \in 1..Len(calls[i].returns) :
             calls[i].returns[n].url \in urls
        /\ \A n \in 1..Len(fetched.returns) :
             \E i \in returned : \E k \in 1..Len(calls[i].returns) :
               calls[i].returns[k] = fetched.returns[n]

\* the first pair's get_jobs raised, a later pair's returned records, and the
\* search gave them
C29_Witness ==
  /\ adapter = "base"
  /\ Len(answers) >= 2
  /\ answers[1].raises # ""
  /\ answers[2].raises = "" /\ answers[2].returns # <<>>
  /\ fetched.raises = "" /\ fetched.returns # <<>>

\* C30: for a non-empty list the footer is in the messages exactly once, as
\* the last part of the last message, and the number it shows is the number
\* of records of the list, which is the number of cards over all messages.
C30_FooterOnceWithCount ==
  (pc = "send" /\ sorted_jobs # <<>>) =>
    LET parts == Join(messages)
        footers == {k \in 1..Len(parts) : parts[k].kind = "footer"}
        cards == {k \in 1..Len(parts) : parts[k].kind = "job"}
        last == messages[Len(messages)]
        shown == SelectSeq(last[Len(last)].text,
                           LAMBDA c : c \in {Digits[d] : d \in 1..Len(Digits)})
    IN  /\ Cardinality(footers) = 1
        /\ last[Len(last)].kind = "footer"
        /\ shown = StrOfNat(Len(sorted_jobs))
        /\ Cardinality(cards) = Len(sorted_jobs)
        /\ \A m \in 1..Len(messages) : messages[m] # <<>>

\* the footer did not fit in the message that holds the last card and makes
\* a message of its own
C30_Witness ==
  /\ pc = "send"
  /\ Len(sorted_jobs) >= 2
  /\ Len(messages) >= 2
  /\ Len(messages[Len(messages)]) = 1
  /\ messages[Len(messages)][1].kind = "footer"

====
